---- MODULE Spec2Model ----
(***************************************************************************)
(* The chat store of src/hooks/use-chat-store.ts as a state machine.       *)
(*                                                                         *)
(* `state` is the zustand state object; set({...}) is a record EXCEPT.     *)
(* `wire` is a response stream as bytes and the decoders at work on it,    *)
(* `route` a stream handler of the chat route, `session` its Session.      *)
(* `ncalls` counts the calls of sendMessage so far, `framesLeft` the chunks *)
(* the streams may still deliver, and `last` names the operation that led  *)
(* to the current state.                                                   *)
(* Every call of sendMessage is an asynchronous activation with its own    *)
(* locals (reader, lastEventTime, heartbeatDead, heartbeatChecker); the    *)
(* activations live in `calls`.  JavaScript runs one task at a time, so    *)
(* an action is the code between two awaits (or one timer callback).       *)
(*                                                                         *)
(* Optional values (undefined / null) are sequences: <<>> is absent,       *)
(* <<v>> is the value v.  A message content is a sequence of tokens, so    *)
(* content.startsWith('Error:') is Head(content) = "Error:".               *)
(***************************************************************************)
EXTENDS Integers, Sequences, FiniteSets, TLC

VARIABLES state, calls, ncalls, framesLeft, last, wire, route, session

vars == <<state, calls, ncalls, framesLeft, last, wire, route, session>>

-----------------------------------------------------------------------------
(* Bounds of the model *)

\* activations of sendMessage over a run
MaxCalls == 2
\* chunks the streams deliver over a run
MaxFrames == 2
\* calls of reset over a run
MaxResets == 1
\* chunks the streams deliver over a run of LiveSpec
LiveFrames == 1
\* entries of the log before the turn that a retry sends again
MaxPrefix == 2
\* error entries at the end of the log at a retry
MaxErrors == 2
\* frames of a stream that is decoded from its bytes
MaxStreamFrames == 2
\* events the backend (or the graph) delivers to the route in one request
MaxEvents == 3
\* deltas merged into one profile, one after the other
MaxDeltas == 3
\* events the backend delivers in one request of a turn of RequestSpec
MaxTurnEvents == 2
\* chunks one response stream delivers to the store in RequestSpec
MaxDelivered == 7
\* chat requests a session has served before a run of HistorySpec
MaxEarlier == 10
\* chat requests of a run of HistorySpec
MaxChats == 3

-----------------------------------------------------------------------------
(* Program constants *)

HEARTBEAT_TIMEOUT_MS == 45000

\* the entries the route keeps of a chat history
HISTORY_LIMIT == 20

PIPELINE_STEPS == <<"Retrieve Trials", "Pre-filter", "Assess Eligibility", "Rank & Report">>

ConnectionLostMsg == "Connection lost - no response from server for 45 seconds. The matching may still be running on the backend."

\* error.message of a rejected fetch or read
NetworkErrorMsg == "Failed to fetch"

RetryHint == "You can retry by clicking the retry button or sending your message again."

-----------------------------------------------------------------------------
(* Inputs *)

Calls == 1..MaxCalls

\* the texts a caller sends
Texts == {"find trials", "58yo female NSCLC"}

\* data.step of a stage frame: two of the stages (the handlers treat every
\* stage alike, by name) and a graph-node name that is not a stage
FrameSteps == {PIPELINE_STEPS[1], PIPELINE_STEPS[3], "parse_patient"}

\* data.patientData of a response frame, when it has one: the scalar fields it
\* defines, and its biomarkers and priorTreatments when it has them
SampleDelta ==
  [scalars |-> [f \in {"age"} |-> 58],
   biomarkers |-> <<[b \in {"EGFR"} |-> "L858R"]>>,
   priorTreatments |-> <<<<"carboplatin">>>>]

\* A profile delta: the scalar fields it defines (a key that is absent has no
\* entry), and its biomarkers and priorTreatments when it has them.
Delta(scalars, biomarkers, priorTreatments) ==
  [scalars |-> scalars, biomarkers |-> biomarkers, priorTreatments |-> priorTreatments]

\* {}
EmptyDelta == Delta(<<>>, <<>>, <<>>)

\* what extractPatientFromMessage returns for a message without patient data
NothingExtracted == Delta(<<>>, <<<<>>>>, <<<<>>>>)

ScalarDeltas ==
  {[f \in {"age"} |-> 58], [f \in {"age"} |-> 61], [f \in {"stage"} |-> "Stage IV"]}

BiomarkerDeltas ==
  {<<>>, [b \in {"EGFR"} |-> "L858R"], [b \in {"EGFR"} |-> "Negative"],
   [b \in {"KRAS"} |-> "G12C"]}

TreatmentDeltas ==
  {<<>>, <<"carboplatin">>, <<"osimertinib", "carboplatin">>, <<"carboplatin", "carboplatin">>}

\* the deltas of the model: data.patientData of a response frame, and the
\* parsedProfile of a request
Deltas ==
       {EmptyDelta, NothingExtracted, SampleDelta}
  \cup {Delta(s, <<>>, <<>>) : s \in ScalarDeltas}
  \cup {Delta(<<>>, <<b>>, <<>>) : b \in BiomarkerDeltas}
  \cup {Delta(<<>>, <<>>, <<t>>) : t \in TreatmentDeltas}

\* The chunks one read() can deliver, by what the loop body does with them.
\*   partial   : bytes without a complete frame (lines is empty)
\*   comment   : a complete frame that does not start with 'data: '
\*   malformed : a 'data: ' frame whose payload is not JSON
\*   unknown   : a JSON payload whose type no case matches
Frames ==
       {[type |-> "step_start", step |-> s, message |-> m] : s \in FrameSteps, m \in {<<>>}}
  \cup {[type |-> "step_complete", step |-> s, cost |-> c] : s \in FrameSteps, c \in {<<1>>}}
  \cup {[type |-> "step_progress", step |-> s, detail |-> d, message |-> <<>>] :
           s \in FrameSteps, d \in {<<"Processing...">>}}
  \cup {[type |-> "trial_progress", nctId |-> "NCT001", title |-> "Trial 1", index |-> 1,
          total |-> 3, status |-> "matched", confidence |-> <<90>>]}
  \cup {[type |-> "response", content |-> <<"done">>, patientData |-> d,
          trials |-> <<"NCT001">>, totalCost |-> 11] : d \in {<<>>, <<SampleDelta>>}}
  \cup {[type |-> "error", message |-> "Processing error."]}
  \cup {[type |-> t] : t \in {"done", "unknown", "malformed", "comment", "partial"}}

-----------------------------------------------------------------------------
(* Helpers *)

\* a || b for optional strings
Or(a, b) == IF a # <<>> THEN a ELSE b

\* { ...a, ...b } on objects, as functions on their keys
Spread(a, b) == [k \in DOMAIN a \cup DOMAIN b |-> IF k \in DOMAIN b THEN b[k] ELSE a[k]]

\* Faulty variant of Dedupe: [...xs], without the Set.
Dedupe_None(xs) == xs

\* [...new Set(xs)]: the first occurrence of every entry, in order
RECURSIVE Dedupe(_)
Dedupe(xs) ==
  IF xs = <<>> THEN <<>>
  ELSE LET front == Dedupe(SubSeq(xs, 1, Len(xs) - 1))
           x == xs[Len(xs)]
       IN IF \E k \in 1..Len(front) : front[k] = x THEN front ELSE Append(front, x)

createEmptyPatientProfile == [scalars |-> <<>>, biomarkers |-> <<>>, priorTreatments |-> <<>>]

\* Faulty variant of MergeProfile: the biomarkers of the frame replace the
\* map.
MergeProfile_ShallowBiomarkers(profile, data) ==
  IF data = <<>> THEN profile
  ELSE LET d == data[1]
       IN [scalars |-> Spread(profile.scalars, d.scalars),
           biomarkers |-> IF d.biomarkers = <<>> THEN profile.biomarkers ELSE d.biomarkers[1],
           priorTreatments |-> Dedupe(profile.priorTreatments \o
                                 (IF d.priorTreatments = <<>> THEN <<>> ELSE d.priorTreatments[1]))]

\* Faulty variant of MergeProfile: the profile of the frame replaces the
\* accumulated one.
MergeProfile_Replaces(profile, data) ==
  IF data = <<>> THEN profile
  ELSE LET d == data[1]
       IN [scalars |-> d.scalars,
           biomarkers |-> IF d.biomarkers = <<>> THEN <<>> ELSE d.biomarkers[1],
           priorTreatments |-> Dedupe(IF d.priorTreatments = <<>> THEN <<>>
                                      ELSE d.priorTreatments[1])]

\* the patientProfile of case 'response'; `data` is data.patientData or absent
MergeProfile(profile, data) ==
  IF data = <<>> THEN profile
  ELSE LET d == data[1]
       IN [scalars |-> Spread(profile.scalars, d.scalars),
           biomarkers |-> Spread(profile.biomarkers,
                                 IF d.biomarkers = <<>> THEN <<>> ELSE d.biomarkers[1]),
           priorTreatments |-> Dedupe(profile.priorTreatments \o
                                 (IF d.priorTreatments = <<>> THEN <<>> ELSE d.priorTreatments[1]))]

\* Faulty variant of HasPatientData: the merge is not guarded.
HasPatientData_Always(parsedProfile) == TRUE

\* hasPatientData of handleFastAPIMode
HasPatientData(parsedProfile) ==
  \/ DOMAIN parsedProfile.scalars # {}
  \/ parsedProfile.biomarkers # <<>> /\ DOMAIN parsedProfile.biomarkers[1] # {}
  \/ parsedProfile.priorTreatments # <<>> /\ Len(parsedProfile.priorTreatments[1]) > 0

\* Faulty variant of MergeSession: the biomarkers of the delta replace the
\* map, as the spread of the delta alone would have it.
MergeSession_ShallowBiomarkers(profile, message, parsedProfile) ==
  IF HasPatientData(parsedProfile)
    THEN [scalars |-> Spread(Spread(profile.scalars, parsedProfile.scalars),
                             [f \in {"rawText"} |-> message]),
          biomarkers |-> IF parsedProfile.biomarkers = <<>> THEN profile.biomarkers
                         ELSE parsedProfile.biomarkers[1],
          priorTreatments |-> Dedupe(profile.priorTreatments \o
                                (IF parsedProfile.priorTreatments = <<>> THEN <<>>
                                 ELSE parsedProfile.priorTreatments[1]))]
    ELSE profile

\* session.patientProfile after the head of handleFastAPIMode
MergeSession(profile, message, parsedProfile) ==
  IF HasPatientData(parsedProfile)
    THEN [scalars |-> Spread(Spread(profile.scalars, parsedProfile.scalars),
                             [f \in {"rawText"} |-> message]),
          biomarkers |-> Spread(profile.biomarkers,
                                IF parsedProfile.biomarkers = <<>> THEN <<>>
                                ELSE parsedProfile.biomarkers[1]),
          priorTreatments |-> Dedupe(profile.priorTreatments \o
                                (IF parsedProfile.priorTreatments = <<>> THEN <<>>
                                 ELSE parsedProfile.priorTreatments[1]))]
    ELSE profile

ResetSteps ==
  [k \in 1..Len(PIPELINE_STEPS) |->
     [name |-> PIPELINE_STEPS[k], status |-> "pending", cost |-> <<>>, detail |-> <<>>]]

UserMessage(content) == [role |-> "user", content |-> <<content>>]

AssistantMessage(content) == [role |-> "assistant", content |-> content]

\* `Error: ${msg}\n\nYou can retry ...`
ErrorContent(msg) == <<"Error:", msg, RetryHint>>

IsErrorMessage(m) == m.role = "assistant" /\ Head(m.content) = "Error:"

\* The operation that led to the current state, for the statements about the
\* state right after an operation: a start of a turn (busy: an earlier call
\* had not returned; loading: isLoading as the call found it), a terminal
\* frame, a failure caught, a return without one, a retry that found no
\* text to send.
Other == [op |-> "other", call |-> 0, busy |-> FALSE, loading |-> FALSE]

Event(op, i) == [op |-> op, call |-> i, busy |-> FALSE, loading |-> FALSE]

InFlight(i) == calls[i].pc \in {"fetching", "reading"}

\* One activation of sendMessage.
\*   pc               : idle, fetching (await fetch), reading (await read), done
\*   content          : the argument
\*   sessionId        : state.sessionId as the call found it (const { sessionId })
\*   sinceEvent       : Date.now() - lastEventTime
\*   heartbeatDead, heartbeatChecker (the interval is armed), cancelled (the
\*   reader): the locals of the heartbeat
\*   opened, sawResponse, sawError, failure, caught, ended : what the call has
\*   done so far (the reader was taken, frames applied, the message of the
\*   error caught, runs of the catch block, runs of the outer finally)
IdleCall == [pc |-> "idle", content |-> "", sessionId |-> 0, sinceEvent |-> 0,
             heartbeatDead |-> FALSE,
             heartbeatChecker |-> FALSE, cancelled |-> FALSE, opened |-> FALSE,
             sawResponse |-> FALSE, sawError |-> FALSE, failure |-> "none",
             caught |-> 0, ended |-> 0]

-----------------------------------------------------------------------------
(* The frame decoders: the read loop of sendMessage and parseSSEStream.     *)
(* A text is a sequence of characters, a chunk a sequence of bytes.  The    *)
(* texts of the model are made of the characters the decoders look at (a    *)
(* newline, a space, the markers 'data:' and 'event:', the braces of a      *)
(* JSON object, its type tag), each one byte long here, and of one          *)
(* character that takes two bytes.                                          *)

LF == "LF"
SP == "SP"
LeadByte == "0xC3"
ContinuationByte == "0xA9"
WideChar == "U+00E9"
ReplacementChar == "U+FFFD"

TypeTags == {"step_start", "response", "mystery"}

\* TextDecoder.decode(bytes, { stream: true }) from the first byte on; `held`
\* says that the lead byte of a character is kept from the bytes before
RECURSIVE DecodeBytes(_, _)
DecodeBytes(held, bytes) ==
  IF bytes = <<>> THEN [text |-> <<>>, held |-> held]
  ELSE LET b == Head(bytes)
           Then(c, r) == [text |-> <<c>> \o r.text, held |-> r.held]
       IN IF held
            THEN IF b = ContinuationByte
                   THEN Then(WideChar, DecodeBytes(FALSE, Tail(bytes)))
                   ELSE Then(ReplacementChar, DecodeBytes(FALSE, bytes))
            ELSE IF b = LeadByte THEN DecodeBytes(TRUE, Tail(bytes))
            ELSE IF b = ContinuationByte
                   THEN Then(ReplacementChar, DecodeBytes(FALSE, Tail(bytes)))
                   ELSE Then(b, DecodeBytes(FALSE, Tail(bytes)))

\* Faulty variant of Decode: decode(value) without the stream option, which
\* ends the character at the end of the chunk.
Decode_NoStream(held, bytes) ==
  LET d == DecodeBytes(FALSE, bytes)
  IN IF d.held THEN [text |-> Append(d.text, ReplacementChar), held |-> FALSE] ELSE d

\* decoder.decode(value, { stream: true })
Decode(held, bytes) == DecodeBytes(held, bytes)

\* text.split(sep)
RECURSIVE Split(_, _)
Split(text, sep) ==
  LET At(i) == SubSeq(text, i, i + Len(sep) - 1) = sep
      Places == {i \in 1..(Len(text) - Len(sep) + 1) : At(i)}
  IN IF Places = {} THEN <<text>>
     ELSE LET i == CHOOSE i \in Places : \A j \in Places : i <= j
          IN <<SubSeq(text, 1, i - 1)>> \o Split(SubSeq(text, i + Len(sep), Len(text)), sep)

\* text.trim()
RECURSIVE Trim(_)
Trim(text) ==
  IF text # <<>> /\ Head(text) \in {LF, SP} THEN Trim(Tail(text))
  ELSE IF text # <<>> /\ text[Len(text)] \in {LF, SP} THEN Trim(SubSeq(text, 1, Len(text) - 1))
  ELSE text

StartsWith(text, prefix) == Len(text) >= Len(prefix) /\ SubSeq(text, 1, Len(prefix)) = prefix

\* text.slice(n), n counted in characters of the model
Slice(text, n) == SubSeq(text, n + 1, Len(text))

\* JSON.parse(text): <<>> when it throws, else the object in a sequence.  The
\* objects of the model are { }, { type } and { type, content }; `type` is a
\* string (<<>> when the object has none), `content` the characters of its
\* content.
JSONParse(text) ==
  LET c == Trim(text)
      inner == SubSeq(c, 2, Len(c) - 1)
  IN IF Len(c) >= 2 /\ c[1] = "{" /\ c[Len(c)] = "}"
       THEN IF inner = <<>> THEN <<[type |-> <<>>, content |-> <<>>]>>
            ELSE IF /\ Head(inner) \in TypeTags
                    /\ \A k \in 2..Len(inner) : inner[k] \in {WideChar, ReplacementChar}
                   THEN <<[type |-> <<Head(inner)>>, content |-> Tail(inner)]>>
                   ELSE <<>>
       ELSE <<>>

\* xs.flat() for a sequence of sequences
RECURSIVE Flat(_)
Flat(xs) == IF xs = <<>> THEN <<>> ELSE Head(xs) \o Flat(Tail(xs))

\* The locals of one decoder: the lead byte held by its TextDecoder, its
\* buffer, and the objects it has passed on (to the switch, to yield).
NewDecoder == [held |-> FALSE, buffer |-> <<>>, frames |-> <<>>]

\* the frame of a line of the read loop: the object that reaches the switch
LineFrame(line) ==
  IF StartsWith(line, <<"data:", SP>>) THEN JSONParse(Slice(line, 2)) ELSE <<>>

\* Faulty variant of ReadLoopBody: one try/catch around the loop over the
\* lines, so a line that fails to parse ends the work on the chunk.
ReadLoopBody_CatchAroundLoop(r, bytes) ==
  LET d == Decode(r.held, bytes)
      lines == Split(r.buffer \o d.text, <<LF, LF>>)
      n == Len(lines) - 1
      Bad(k) == StartsWith(lines[k], <<"data:", SP>>) /\ LineFrame(lines[k]) = <<>>
      upTo == IF \E k \in 1..n : Bad(k) THEN (CHOOSE k \in 1..n : Bad(k)) ELSE n
  IN [held |-> d.held,
      buffer |-> lines[Len(lines)],
      frames |-> r.frames \o Flat([k \in 1..upTo |-> LineFrame(lines[k])])]

\* the body of the read loop of sendMessage on one chunk, up to the switch
ReadLoopBody(r, bytes) ==
  LET d == Decode(r.held, bytes)
      lines == Split(r.buffer \o d.text, <<LF, LF>>)
  IN [held |-> d.held,
      buffer |-> lines[Len(lines)],
      frames |-> r.frames \o Flat([k \in 1..(Len(lines) - 1) |-> LineFrame(lines[k])])]

\* the loop of parseSSEStream over the lines of one event: eventType and data
RECURSIVE EventFields(_, _)
EventFields(lines, acc) ==
  IF lines = <<>> THEN acc
  ELSE LET line == Head(lines)
       IN EventFields(Tail(lines),
            IF StartsWith(line, <<"event:">>) THEN [acc EXCEPT !.eventType = Trim(Slice(line, 1))]
            ELSE IF StartsWith(line, <<"data:">>) THEN [acc EXCEPT !.data = Trim(Slice(line, 1))]
            ELSE acc)

\* what parseSSEStream yields for one event text
ParseEvent(eventText) ==
  IF Trim(eventText) = <<>> THEN <<>>
  ELSE LET f == EventFields(Split(eventText, <<LF>>), [eventType |-> <<"message">>, data |-> <<>>])
           parsed == JSONParse(f.data)
       IN IF f.data = <<>> \/ parsed = <<>> THEN <<>>
          ELSE <<[parsed[1] EXCEPT !.type = IF @ = <<>> THEN f.eventType ELSE @]>>

\* the body of the loop of parseSSEStream on one chunk
ParseSSEChunk(r, bytes) ==
  LET d == Decode(r.held, bytes)
      events == Split(r.buffer \o d.text, <<LF, LF>>)
  IN [held |-> d.held,
      buffer |-> events[Len(events)],
      frames |-> r.frames \o Flat([k \in 1..(Len(events) - 1) |-> ParseEvent(events[k])])]

\* The stream of the decoders: the frames and the tail it is made of, its
\* bytes, the bytes delivered so far, the two decoders, and whether a chunk
\* has ended between the newlines of a separator or inside a character.
IdleWire ==
  [kinds |-> <<>>, tail |-> "none", stream |-> <<>>, pos |-> 0,
   reader |-> NewDecoder, parser |-> NewDecoder,
   splitSeparator |-> FALSE, splitChar |-> FALSE]

\* The stream handler of the route before a request; `status` is the status
\* of the Response it has returned (0: none yet).
IdleRoute ==
  [handler |-> "none", status |-> 0, matchingMode |-> "", consumed |-> <<>>,
   emitted |-> <<>>, closed |-> FALSE, timeout |-> FALSE]

\* The Session of the route (sessions.get(sessionId)) before a request: its
\* patientProfile and its chatHistory.  For the statements about merging it
\* also records on which side deltas are merged (the store or the route),
\* the deltas merged so far and the profile after each of them; for the
\* statements about the chat history, every entry pushed so far (pushed).
IdleSession ==
  [patientProfile |-> createEmptyPatientProfile, chatHistory |-> <<>>,
   side |-> "none", deltas |-> <<>>, history |-> <<>>, pushed |-> <<>>]

-----------------------------------------------------------------------------
(* Initial state *)

InitState ==
  [sessionId |-> 0,
   messages |-> <<>>,
   isLoading |-> FALSE,
   patientProfile |-> createEmptyPatientProfile,
   pipelineSteps |-> ResetSteps,
   isPipelineRunning |-> FALSE,
   trials |-> <<>>,
   totalCost |-> 0,
   trialProgress |-> <<>>,
   matchingDetail |-> <<>>,
   lastUserMessage |-> <<>>]

Init ==
  /\ state = InitState
  /\ calls = [i \in Calls |-> IdleCall]
  /\ ncalls = 0
  /\ framesLeft = MaxFrames
  /\ last = Other
  /\ wire = IdleWire
  /\ route = IdleRoute
  /\ session = IdleSession

-----------------------------------------------------------------------------
(* The frame handlers of the read loop *)

\* Faulty variant of StepStart: a stage that is not in the list is added to
\* it.
StepStart_AddsStage(st, f) ==
  [st EXCEPT !.isPipelineRunning = TRUE,
             !.pipelineSteps =
                IF \E k \in DOMAIN st.pipelineSteps : st.pipelineSteps[k].name = f.step
                  THEN [k \in DOMAIN st.pipelineSteps |->
                          LET step == st.pipelineSteps[k] IN
                          IF step.name = f.step
                            THEN [step EXCEPT !.status = "running", !.detail = f.message]
                            ELSE step]
                  ELSE Append(st.pipelineSteps,
                              [name |-> f.step, status |-> "running", cost |-> <<>>,
                               detail |-> f.message])]

StepStart(st, f) ==
  [st EXCEPT !.isPipelineRunning = TRUE,
             !.pipelineSteps = [k \in DOMAIN st.pipelineSteps |->
                LET step == st.pipelineSteps[k] IN
                IF step.name = f.step
                  THEN [step EXCEPT !.status = "running", !.detail = f.message]
                  ELSE step]]

StepComplete(st, f) ==
  [st EXCEPT !.pipelineSteps = [k \in DOMAIN st.pipelineSteps |->
                LET step == st.pipelineSteps[k] IN
                IF step.name = f.step
                  THEN [step EXCEPT !.status = "complete", !.cost = f.cost, !.detail = <<>>]
                  ELSE step]]

\* Faulty variant of StepProgress: a progress frame also starts the stage.
StepProgress_SetsRunning(st, f) ==
  [st EXCEPT !.pipelineSteps = [k \in DOMAIN st.pipelineSteps |->
                LET step == st.pipelineSteps[k] IN
                IF step.name = f.step
                  THEN [step EXCEPT !.status = "running",
                                    !.detail = Or(f.detail, Or(f.message, step.detail))]
                  ELSE step],
             !.matchingDetail = Or(f.detail, Or(f.message, @))]

StepProgress(st, f) ==
  [st EXCEPT !.pipelineSteps = [k \in DOMAIN st.pipelineSteps |->
                LET step == st.pipelineSteps[k] IN
                IF step.name = f.step
                  THEN [step EXCEPT !.detail = Or(f.detail, Or(f.message, step.detail))]
                  ELSE step],
             !.matchingDetail = Or(f.detail, Or(f.message, @))]

TrialProgress(st, f) ==
  [st EXCEPT !.trialProgress = Append(@, [nctId |-> f.nctId, title |-> f.title,
                                           index |-> f.index, total |-> f.total,
                                           status |-> f.status, confidence |-> f.confidence])]

\* Faulty variant of OnResponse: the stages are left as they are.
OnResponse_NoFinalization(st, f) ==
  [st EXCEPT !.messages = Append(@, AssistantMessage(f.content)),
             !.patientProfile = MergeProfile(@, f.patientData),
             !.trials = f.trials,
             !.totalCost = f.totalCost,
             !.isPipelineRunning = FALSE,
             !.lastUserMessage = <<>>]

\* Faulty variant of OnResponse: only the running stages are completed.
OnResponse_OnlyRunning(st, f) ==
  [st EXCEPT !.messages = Append(@, AssistantMessage(f.content)),
             !.patientProfile = MergeProfile(@, f.patientData),
             !.trials = f.trials,
             !.totalCost = f.totalCost,
             !.isPipelineRunning = FALSE,
             !.lastUserMessage = <<>>,
             !.pipelineSteps = [k \in DOMAIN st.pipelineSteps |->
                LET step == st.pipelineSteps[k] IN
                IF step.status = "running"
                  THEN [step EXCEPT !.status = "complete", !.detail = <<>>]
                  ELSE step]]

OnResponse(st, f) ==
  [st EXCEPT !.messages = Append(@, AssistantMessage(f.content)),
             !.patientProfile = MergeProfile(@, f.patientData),
             !.trials = f.trials,
             !.totalCost = f.totalCost,
             !.isPipelineRunning = FALSE,
             !.lastUserMessage = <<>>,
             !.pipelineSteps = [k \in DOMAIN st.pipelineSteps |->
                LET step == st.pipelineSteps[k] IN
                IF step.status = "pending" \/ step.status = "running"
                  THEN [step EXCEPT !.status = "complete", !.detail = <<>>]
                  ELSE step]]

\* Faulty variant of MarkError: the stages not yet started are marked too.
MarkError_AllOpen(st, msg) ==
  [st EXCEPT !.messages = Append(@, AssistantMessage(ErrorContent(msg))),
             !.isPipelineRunning = FALSE,
             !.pipelineSteps = [k \in DOMAIN st.pipelineSteps |->
                LET step == st.pipelineSteps[k] IN
                IF step.status = "pending" \/ step.status = "running"
                  THEN [step EXCEPT !.status = "error"]
                  ELSE step]]

\* the update shared by case 'error' and by the catch block
MarkError(st, msg) ==
  [st EXCEPT !.messages = Append(@, AssistantMessage(ErrorContent(msg))),
             !.isPipelineRunning = FALSE,
             !.pipelineSteps = [k \in DOMAIN st.pipelineSteps |->
                LET step == st.pipelineSteps[k] IN
                IF step.status = "running"
                  THEN [step EXCEPT !.status = "error"]
                  ELSE step]]

OnErrorFrame(st, f) == MarkError(st, f.message)

HandleFrame(st, f) ==
  CASE f.type = "step_start"     -> StepStart(st, f)
    [] f.type = "step_complete"  -> StepComplete(st, f)
    [] f.type = "step_progress"  -> StepProgress(st, f)
    [] f.type = "trial_progress" -> TrialProgress(st, f)
    [] f.type = "response"       -> OnResponse(st, f)
    [] f.type = "error"          -> OnErrorFrame(st, f)
    [] OTHER                     -> st

-----------------------------------------------------------------------------
(* The ends of sendMessage *)

\* finally { set({ isLoading: false }) }
EndTurn(st) == [st EXCEPT !.isLoading = FALSE]

\* Faulty variant of CatchAndEnd: the loading flag is cleared on the success
\* path only.
CatchAndEnd_NoFinally(st, msg) == MarkError(st, msg)

\* catch (error) { ... } finally { ... }
CatchAndEnd(st, msg) == EndTurn(MarkError(st, msg))

\* finally { clearInterval(heartbeatChecker) }
ClearInterval(c) == [c EXCEPT !.heartbeatChecker = FALSE]

\* The activation after the function has returned (the clock of its loop no
\* longer matters).
Returned(c, failure) ==
  [c EXCEPT !.pc = "done", !.sinceEvent = 0, !.failure = failure,
            !.caught = IF failure = "none" THEN @ ELSE @ + 1,
            !.ended = @ + 1]

-----------------------------------------------------------------------------
(* Actions *)

\* Faulty variant of Begin: the trial-progress list of the turn before is
\* kept.
Begin_KeepsProgress(st, content) ==
  [st EXCEPT !.messages = Append(@, UserMessage(content)),
             !.isLoading = TRUE,
             !.pipelineSteps = ResetSteps,
             !.isPipelineRunning = FALSE,
             !.matchingDetail = <<>>,
             !.lastUserMessage = <<content>>]

\* the synchronous head of sendMessage, up to the await of fetch
Begin(st, content) ==
  [st EXCEPT !.messages = Append(@, UserMessage(content)),
             !.isLoading = TRUE,
             !.pipelineSteps = ResetSteps,
             !.isPipelineRunning = FALSE,
             !.trialProgress = <<>>,
             !.matchingDetail = <<>>,
             !.lastUserMessage = <<content>>]

StartCall(st, content, op) ==
  /\ ncalls < MaxCalls
  /\ ncalls' = ncalls + 1
  /\ state' = Begin(st, content)
  /\ calls' = [calls EXCEPT ![ncalls + 1] = [IdleCall EXCEPT !.pc = "fetching", !.content = content,
                                                             !.sessionId = st.sessionId]]
  /\ last' = [op |-> op, call |-> ncalls + 1, busy |-> \E j \in Calls : InFlight(j),
              loading |-> st.isLoading]
  /\ UNCHANGED <<framesLeft, wire, route, session>>

SendMessage(content) == StartCall(state, content, "sendMessage")

\* await fetch(...) settles with a 2xx response that has a body
FetchOk(i) ==
  /\ calls[i].pc = "fetching"
  /\ calls' = [calls EXCEPT ![i].pc = "reading", ![i].opened = TRUE, ![i].sinceEvent = 0,
                            ![i].heartbeatDead = FALSE, ![i].heartbeatChecker = TRUE]
  /\ last' = Other
  /\ UNCHANGED <<state, ncalls, framesLeft, wire, route, session>>

\* fetch settles otherwise: a non-2xx response ('Failed'), a response without
\* a body ('No stream'), or a rejection (the message of the error thrown)
FetchFails(i, msg) ==
  /\ calls[i].pc = "fetching"
  /\ state' = CatchAndEnd(state, msg)
  /\ calls' = [calls EXCEPT ![i] = Returned(@, msg)]
  /\ last' = Event("failure", i)
  /\ UNCHANGED <<ncalls, framesLeft, wire, route, session>>

\* await reader.read() yields a chunk; the loop body handles its frame
ReadChunk(i, f) ==
  /\ calls[i].pc = "reading"
  /\ ~calls[i].cancelled
  /\ framesLeft > 0
  /\ framesLeft' = framesLeft - 1
  /\ state' = HandleFrame(state, f)
  /\ calls' = [calls EXCEPT ![i].sinceEvent = 0,
                            ![i].sawResponse = @ \/ f.type = "response",
                            ![i].sawError = @ \/ f.type = "error"]
  /\ last' = IF f.type \in {"response", "error"} THEN Event(f.type, i) ELSE Other
  /\ UNCHANGED <<ncalls, wire, route, session>>

\* Faulty variant of ReadDone: heartbeatDead is not looked at after the loop.
ReadDone_IgnoresDead(i) ==
  /\ calls[i].pc = "reading"
  /\ state' = EndTurn(state)
  /\ calls' = [calls EXCEPT ![i] = Returned(ClearInterval(@), "none")]
  /\ last' = Event("return", i)
  /\ UNCHANGED <<ncalls, framesLeft, wire, route, session>>

\* await reader.read() yields done: the server closed the stream, or the
\* reader was cancelled
ReadDone(i) ==
  /\ calls[i].pc = "reading"
  /\ IF calls[i].heartbeatDead
       THEN /\ state' = CatchAndEnd(state, ConnectionLostMsg)
            /\ calls' = [calls EXCEPT ![i] = Returned(ClearInterval(@), ConnectionLostMsg)]
            /\ last' = Event("failure", i)
       ELSE /\ state' = EndTurn(state)
            /\ calls' = [calls EXCEPT ![i] = Returned(ClearInterval(@), "none")]
            /\ last' = Event("return", i)
  /\ UNCHANGED <<ncalls, framesLeft, wire, route, session>>

\* Faulty variant of ReadThrows: clearInterval follows the loop instead of
\* standing in a finally block.
ReadThrows_NoFinally(i) ==
  /\ calls[i].pc = "reading"
  /\ ~calls[i].cancelled
  /\ state' = CatchAndEnd(state, NetworkErrorMsg)
  /\ calls' = [calls EXCEPT ![i] = Returned(@, NetworkErrorMsg)]
  /\ last' = Event("failure", i)
  /\ UNCHANGED <<ncalls, framesLeft, wire, route, session>>

\* await reader.read() rejects
ReadThrows(i) ==
  /\ calls[i].pc = "reading"
  /\ ~calls[i].cancelled
  /\ state' = CatchAndEnd(state, NetworkErrorMsg)
  /\ calls' = [calls EXCEPT ![i] = Returned(ClearInterval(@), NetworkErrorMsg)]
  /\ last' = Event("failure", i)
  /\ UNCHANGED <<ncalls, framesLeft, wire, route, session>>

\* Time passes while the loop waits in read().  The clock of the model moves
\* by the length of the timeout, so that sinceEvent is 0, the timeout itself
\* (not yet more than it) or twice the timeout.
Tick(i) ==
  /\ calls[i].pc = "reading"
  /\ calls[i].sinceEvent <= HEARTBEAT_TIMEOUT_MS
  /\ calls' = [calls EXCEPT ![i].sinceEvent = @ + HEARTBEAT_TIMEOUT_MS]
  /\ last' = Other
  /\ UNCHANGED <<state, ncalls, framesLeft, wire, route, session>>

\* Faulty variant of HeartbeatCheck: the reader is not cancelled.
HeartbeatCheck_NoCancel(i) ==
  /\ calls[i].heartbeatChecker
  /\ calls[i].sinceEvent > HEARTBEAT_TIMEOUT_MS
  /\ calls' = [calls EXCEPT ![i].heartbeatDead = TRUE, ![i].heartbeatChecker = FALSE]
  /\ last' = Other
  /\ UNCHANGED <<state, ncalls, framesLeft, wire, route, session>>

\* the setInterval callback
HeartbeatCheck(i) ==
  /\ calls[i].heartbeatChecker
  /\ calls[i].sinceEvent > HEARTBEAT_TIMEOUT_MS
  /\ calls' = [calls EXCEPT ![i].heartbeatDead = TRUE, ![i].cancelled = TRUE,
                            ![i].heartbeatChecker = FALSE]
  /\ last' = Other
  /\ UNCHANGED <<state, ncalls, framesLeft, wire, route, session>>

\* Faulty variant of StripFailed: the user entry of the failed turn is kept.
StripFailed_KeepsUser(messages) ==
  LET RECURSIVE DropErrors(_)
      DropErrors(ms) == IF Len(ms) > 0 /\ IsErrorMessage(ms[Len(ms)])
                          THEN DropErrors(SubSeq(ms, 1, Len(ms) - 1))
                          ELSE ms
  IN DropErrors(messages)

\* the messages retryLastMessage keeps
StripFailed(messages) ==
  LET RECURSIVE DropErrors(_)
      DropErrors(ms) == IF Len(ms) > 0 /\ IsErrorMessage(ms[Len(ms)])
                          THEN DropErrors(SubSeq(ms, 1, Len(ms) - 1))
                          ELSE ms
      kept == DropErrors(messages)
  IN IF Len(kept) > 0 /\ kept[Len(kept)].role = "user"
       THEN SubSeq(kept, 1, Len(kept) - 1)
       ELSE kept

\* if (lastUserMessage): neither null nor the empty string
RetryGuard == state.lastUserMessage # <<>> /\ state.lastUserMessage[1] # ""

\* Faulty variant of RetryLastMessage: lastUserMessage is not looked at, and a
\* null is sent as the empty text.
RetryLastMessage_NoGuard ==
  StartCall([state EXCEPT !.messages = StripFailed(@)],
            IF state.lastUserMessage = <<>> THEN "" ELSE state.lastUserMessage[1], "retry")

RetryLastMessage ==
  IF RetryGuard
    THEN StartCall([state EXCEPT !.messages = StripFailed(@)], state.lastUserMessage[1], "retry")
    ELSE /\ last' = Event("retryNoop", 0)
         /\ UNCHANGED <<state, calls, ncalls, framesLeft, wire, route, session>>

Reset ==
  /\ state.sessionId < MaxResets
  /\ state' = [state EXCEPT !.sessionId = @ + 1,
                            !.messages = <<>>,
                            !.patientProfile = createEmptyPatientProfile,
                            !.pipelineSteps = ResetSteps,
                            !.isPipelineRunning = FALSE,
                            !.trials = <<>>,
                            !.totalCost = 0,
                            !.trialProgress = <<>>,
                            !.matchingDetail = <<>>,
                            !.lastUserMessage = <<>>]
  /\ last' = Other
  /\ UNCHANGED <<calls, ncalls, framesLeft, wire, route, session>>

Next ==
  \/ \E t \in Texts : SendMessage(t)
  \/ \E i \in Calls : FetchOk(i)
  \/ \E i \in Calls, msg \in {"Failed", "No stream", NetworkErrorMsg} : FetchFails(i, msg)
  \/ \E i \in Calls, f \in Frames : ReadChunk(i, f)
  \/ \E i \in Calls : ReadDone(i)
  \/ \E i \in Calls : ReadThrows(i)
  \/ \E i \in Calls : Tick(i)
  \/ \E i \in Calls : HeartbeatCheck(i)
  \/ RetryLastMessage
  \/ Reset

Spec == Init /\ [][Next]_vars

-----------------------------------------------------------------------------
(* Fairness for the statements about progress.  The clock advances, the     *)
(* interval callback runs while it is armed, and a read of a cancelled      *)
(* reader settles.  Nothing obliges fetch to settle or the server to send   *)
(* or to close.                                                             *)

CancelledReadSettles(i) == calls[i].cancelled /\ ReadDone(i)

LiveInit ==
  /\ state = InitState
  /\ calls = [i \in Calls |-> IdleCall]
  /\ ncalls = 0
  /\ framesLeft = LiveFrames
  /\ last = Other
  /\ wire = IdleWire
  /\ route = IdleRoute
  /\ session = IdleSession

LiveSpec ==
  /\ LiveInit
  /\ [][Next]_vars
  /\ \A i \in Calls : WF_vars(Tick(i))
  /\ \A i \in Calls : WF_vars(HeartbeatCheck(i))
  /\ \A i \in Calls : WF_vars(CancelledReadSettles(i))

-----------------------------------------------------------------------------
(* retryLastMessage on the logs the store can hold when no call is in       *)
(* flight.  lastUserMessage is set by sendMessage together with the user    *)
(* entry it appends and is cleared by case 'response' and by reset; so      *)
(* while it is set, the log is some earlier entries, the user entry with    *)
(* that text, and the error entries appended since; and when it is null and *)
(* the log has a user entry, an answer follows the last one.                *)

LogEntries ==
  {UserMessage(t) : t \in Texts}
    \cup {AssistantMessage(<<"done">>), AssistantMessage(ErrorContent(NetworkErrorMsg))}

Prefixes == UNION {[1..n -> LogEntries] : n \in 0..MaxPrefix}

Answered(ms) ==
  \A k \in 1..Len(ms) :
    ms[k].role = "user" => \E j \in (k + 1)..Len(ms) : ms[j] = AssistantMessage(<<"done">>)

RetryInit ==
  /\ \E prefix \in Prefixes :
        \/ \E t \in Texts, n \in 0..MaxErrors :
             state = [InitState EXCEPT
                        !.messages = prefix \o <<UserMessage(t)>> \o
                                     [k \in 1..n |-> AssistantMessage(ErrorContent(NetworkErrorMsg))],
                        !.lastUserMessage = <<t>>]
        \/ /\ Answered(prefix)
           /\ state = [InitState EXCEPT !.messages = prefix]
  /\ calls = [i \in Calls |-> IdleCall]
  /\ ncalls = 0
  /\ framesLeft = 0
  /\ last = Other
  /\ wire = IdleWire
  /\ route = IdleRoute
  /\ session = IdleSession

RetryNext == RetryLastMessage

RetrySpec == RetryInit /\ [][RetryNext]_vars

-----------------------------------------------------------------------------
(* The decoders at work on a stream that arrives in chunks.  A stream is    *)
(* up to MaxStreamFrames frames, each followed by the separator, and a tail *)
(* that no separator follows.  The read loop of sendMessage hands its       *)
(* frames to the switch; parseSSEStream decodes the same chunks.            *)

\* the frames of a stream:
\*   step_start, response : `data: ${JSON.stringify(...)}` as the route writes it
\*   mystery   : a payload whose type no case matches
\*   malformed : a payload that is not JSON
\*   comment   : a frame without the data marker
\*   event     : 'event: type' and 'data:json' on two lines, the payload
\*               without a type
Kinds == {"step_start", "response", "mystery", "malformed", "comment", "event"}

FrameText(kind) ==
  CASE kind = "step_start" -> <<"data:", SP, "{", "step_start", "}">>
    [] kind = "response"   -> <<"data:", SP, "{", "response", LeadByte, ContinuationByte, "}">>
    [] kind = "mystery"    -> <<"data:", SP, "{", "mystery", "}">>
    [] kind = "malformed"  -> <<"data:", SP, "{", "response">>
    [] kind = "comment"    -> <<": ping">>
    [] kind = "event"      -> <<"event:", SP, "step_start", LF, "data:", "{", "}">>

\* the bytes after the last separator: none, a whole response payload, the
\* same and the first newline of a separator
Tails == {"none", "response", "responseLF"}

TailText(tail) ==
  CASE tail = "none"       -> <<>>
    [] tail = "response"   -> FrameText("response")
    [] tail = "responseLF" -> FrameText("response") \o <<LF>>

\* controller.enqueue(encoder.encode(`...\n\n`)) for every frame
Encode(kinds, tail) ==
  Flat([k \in 1..Len(kinds) |-> FrameText(kinds[k]) \o <<LF, LF>>]) \o TailText(tail)

\* data, as the cases of the switch read it
FrameOf(obj) ==
  IF obj.type = <<"step_start">>
    THEN [type |-> "step_start", step |-> PIPELINE_STEPS[1], message |-> <<>>]
  ELSE IF obj.type = <<"response">>
    THEN [type |-> "response", content |-> <<"done">> \o obj.content, patientData |-> <<>>,
          trials |-> <<"NCT001">>, totalCost |-> 11]
  ELSE [type |-> "unknown"]

\* the switch on every frame of a chunk, in order
RECURSIVE ApplyFrames(_, _)
ApplyFrames(st, frames) ==
  IF frames = <<>> THEN st ELSE ApplyFrames(HandleFrame(st, Head(frames)), Tail(frames))

ApplyAll(st, objs) == ApplyFrames(st, [k \in 1..Len(objs) |-> FrameOf(objs[k])])

DecoderInit ==
  /\ \E kinds \in UNION {[1..n -> Kinds] : n \in 0..MaxStreamFrames}, tail \in Tails :
        wire = [IdleWire EXCEPT !.kinds = kinds, !.tail = tail, !.stream = Encode(kinds, tail)]
  /\ state = Begin(InitState, "find trials")
  /\ calls = [i \in Calls |->
                IF i = 1 THEN [IdleCall EXCEPT !.pc = "reading", !.content = "find trials",
                                               !.opened = TRUE, !.heartbeatChecker = TRUE]
                         ELSE IdleCall]
  /\ ncalls = 1
  /\ framesLeft = 0
  /\ last = Other
  /\ route = IdleRoute
  /\ session = IdleSession

\* await reader.read() yields the next n bytes of the stream
Deliver(n) ==
  /\ calls[1].pc = "reading"
  /\ n \in 1..(Len(wire.stream) - wire.pos)
  /\ LET chunk == SubSeq(wire.stream, wire.pos + 1, wire.pos + n)
         end == wire.pos + n
         r == ReadLoopBody(wire.reader, chunk)
         new == SubSeq(r.frames, Len(wire.reader.frames) + 1, Len(r.frames))
     IN /\ wire' = [wire EXCEPT
                      !.pos = end,
                      !.reader = r,
                      !.parser = ParseSSEChunk(@, chunk),
                      !.splitSeparator = @ \/ (/\ end < Len(wire.stream)
                                                /\ wire.stream[end] = LF
                                                /\ wire.stream[end + 1] = LF),
                      !.splitChar = @ \/ wire.stream[end] = LeadByte]
        /\ state' = ApplyAll(state, new)
  /\ calls' = [calls EXCEPT ![1].sinceEvent = 0]
  /\ last' = Other
  /\ UNCHANGED <<ncalls, framesLeft, route, session>>

\* Faulty variant of StreamEnd: what is left in the buffer is handled as one
\* more frame when the stream ends.
StreamEnd_FlushesBuffer ==
  /\ calls[1].pc = "reading"
  /\ wire.pos = Len(wire.stream)
  /\ state' = EndTurn(ApplyAll(state, LineFrame(wire.reader.buffer)))
  /\ calls' = [calls EXCEPT ![1] = Returned(ClearInterval(@), "none")]
  /\ wire' = [wire EXCEPT !.reader.frames = @ \o LineFrame(wire.reader.buffer),
                          !.reader.buffer = <<>>]
  /\ last' = Event("return", 1)
  /\ UNCHANGED <<ncalls, framesLeft, route, session>>

\* await reader.read() yields done after the last byte
StreamEnd ==
  /\ wire.pos = Len(wire.stream)
  /\ ReadDone(1)

DecoderNext ==
  \/ \E n \in 1..(Len(wire.stream) - wire.pos) : Deliver(n)
  \/ StreamEnd

DecoderSpec == DecoderInit /\ [][DecoderNext]_vars

-----------------------------------------------------------------------------
(* The stream handlers of the chat route: handleLocalMode and               *)
(* handleFastAPIMode.  `route.consumed` are the events received from the    *)
(* graph or from the backend, `route.emitted` the frames enqueued on the    *)
(* response stream, `route.closed` says that controller.close() was called, *)
(* `route.timeout` that the 4-minute timer is armed.                        *)

\* a frame of the response stream: its type, the stage it names (or ""),
\* and its detail or message
Frame(type, step, detail) == [type |-> type, step |-> step, detail |-> detail]

TimedOutMsg == "Request timed out - the matching is still processing on the backend. Please retry in a moment."

\* event.phase of the backend
Phases == {"retrieval", "matching", "ranking"}

\* the events of the FastAPI backend, by type, phase and mode ("" when the
\* event has none); 'mystery' is a type without a case
RemoteEvents ==
       {[type |-> "phase_start", phase |-> p, mode |-> ""] : p \in {"retrieval", "ranking"}}
  \cup {[type |-> "phase_start", phase |-> "matching", mode |-> m] :
           m \in {"super_batch", "sequential", ""}}
  \cup {[type |-> "phase_complete", phase |-> p, mode |-> ""] : p \in Phases}
  \cup {[type |-> t, phase |-> "", mode |-> ""] :
           t \in {"super_batch_start", "prefilter_start", "prefilter_complete",
                  "exclusion_chunk_start", "batch_complete", "super_batch_fallback",
                  "trial_matched", "complete", "error", "heartbeat", "mystery"}}

\* what extractPatientFromMessage makes of '58yo female NSCLC'
IntakeDelta ==
  Delta([f \in {"age", "cancerType"} |-> IF f = "age" THEN 58 ELSE "NSCLC"], <<<<>>>>, <<<<>>>>)

\* what it makes of 'find trials for EGFR L858R'
BiomarkerDelta == Delta(<<>>, <<[b \in {"EGFR"} |-> "L858R"]>>, <<<<>>>>)

\* the message of a request in mode 'fastapi' and what
\* extractPatientFromMessage makes of it
Requests ==
  {[message |-> "find trials", parsedProfile |-> NothingExtracted],
   [message |-> "58yo female NSCLC", parsedProfile |-> IntakeDelta],
   [message |-> "find trials for EGFR L858R", parsedProfile |-> BiomarkerDelta]}

\* patterns.some(p => p.test(message)): the messages of the model in which
\* 'find' comes before 'trial'
MatchesPattern(message) == message \in {"find trials", "find trials for EGFR L858R"}

\* shouldTriggerMatchingFromMessage(message, session.patientProfile)
shouldTriggerMatchingFromMessage(message, profile) ==
  /\ MatchesPattern(message)
  /\ "age" \in DOMAIN profile.scalars
  /\ "cancerType" \in DOMAIN profile.scalars

\* what chatWithQwen does: it returns a text, or it throws (<<>>)
QwenReply == "Describe the patient, or say find trials."

ChatReplies == {<<QwenReply>>, <<>>}

ProfileUpdatedMsg == "Got it - I've updated your patient profile. Say find trials when you're ready to search."

AssistantIntroMsg == "I'm your clinical trial matching assistant. Describe a patient profile and I'll help find matching trials."

\* content of the chat branch: the reply, or the fallback of the catch block
ChatContent(reply, hasPatientData) ==
  IF reply # <<>> THEN reply[1]
  ELSE IF hasPatientData THEN ProfileUpdatedMsg ELSE AssistantIntroMsg

HistoryEntry(role, content) == [role |-> role, content |-> content]

\* Faulty variant of PushHistory: the history is not cut.
PushHistory_Unbounded(chatHistory, message, content) ==
  chatHistory \o <<HistoryEntry("user", message), HistoryEntry("assistant", content)>>

\* the two push calls on session.chatHistory and slice(-20)
PushHistory(chatHistory, message, content) ==
  LET h == chatHistory \o <<HistoryEntry("user", message), HistoryEntry("assistant", content)>>
  IN IF Len(h) > HISTORY_LIMIT THEN SubSeq(h, Len(h) - HISTORY_LIMIT + 1, Len(h)) ELSE h

\* the Session after the chat branch of handleFastAPIMode on a request and
\* an outcome of chatWithQwen
AfterChat(sess, r, reply) ==
  LET content == ChatContent(reply, HasPatientData(r.parsedProfile))
  IN [sess EXCEPT
        !.patientProfile = MergeSession(@, r.message, r.parsedProfile),
        !.chatHistory = PushHistory(@, r.message, content),
        !.pushed = @ \o <<HistoryEntry("user", r.message), HistoryEntry("assistant", content)>>]

\* the Session of a patient whose age and cancer type are known: the one
\* after a first chat request with them
KnownPatientSession ==
  AfterChat(IdleSession, [message |-> "58yo female NSCLC", parsedProfile |-> IntakeDelta],
            <<QwenReply>>)

\* finalState.patientProfile of the graph, when it has one
FinalProfiles ==
  {<<>>, <<[scalars |-> [f \in {"age"} |-> 58], biomarkers |-> [b \in {"EGFR"} |-> "L858R"],
            priorTreatments |-> <<"carboplatin">>]>>}

\* the events of graph.streamEvents: a node starts or ends, the graph ends
GraphEvents ==
  {[event |-> ev, name |-> n] : ev \in {"on_chain_start", "on_chain_end"},
                                 n \in {"parse_patient", "LangGraph"}}

\* Faulty variant of PhaseStart: Pre-filter is left running when the matching
\* phase starts in sequential mode.
PhaseStart_NoAutoComplete(e) ==
  IF e.phase = "retrieval" THEN <<Frame("step_start", "Retrieve Trials", "")>>
  ELSE IF e.phase = "matching"
    THEN <<Frame("step_start", "Pre-filter", "")>>
         \o (IF e.mode # "super_batch"
               THEN <<Frame("step_start", "Assess Eligibility", "Sequential matching")>>
               ELSE <<>>)
  ELSE IF e.phase = "ranking" THEN <<Frame("step_start", "Rank & Report", "")>>
  ELSE <<>>

\* case 'phase_start'
PhaseStart(e) ==
  IF e.phase = "retrieval" THEN <<Frame("step_start", "Retrieve Trials", "")>>
  ELSE IF e.phase = "matching"
    THEN <<Frame("step_start", "Pre-filter", "")>>
         \o (IF e.mode # "super_batch"
               THEN <<Frame("step_complete", "Pre-filter", ""),
                      Frame("step_start", "Assess Eligibility", "Sequential matching")>>
               ELSE <<>>)
  ELSE IF e.phase = "ranking" THEN <<Frame("step_start", "Rank & Report", "")>>
  ELSE <<>>

\* case 'phase_complete'
PhaseComplete(e) ==
  IF e.phase = "retrieval" THEN <<Frame("step_complete", "Retrieve Trials", "")>>
  ELSE IF e.phase = "matching" THEN <<Frame("step_complete", "Assess Eligibility", "")>>
  ELSE IF e.phase = "ranking" THEN <<Frame("step_complete", "Rank & Report", "")>>
  ELSE <<>>

\* the switch of handleFastAPIMode: the frames enqueued for one event
Normalize(e) ==
  CASE e.type = "phase_start" -> PhaseStart(e)
    [] e.type = "phase_complete" -> PhaseComplete(e)
    [] e.type = "super_batch_start" -> <<Frame("step_progress", "Pre-filter", "Super-batch")>>
    [] e.type = "prefilter_start" -> <<Frame("step_progress", "Pre-filter", "Pre-filtering")>>
    [] e.type = "prefilter_complete" ->
         <<Frame("step_complete", "Pre-filter", "passed / failed"),
           Frame("step_start", "Assess Eligibility", "Assessing eligibility criteria")>>
    [] e.type = "exclusion_chunk_start" ->
         <<Frame("step_progress", "Assess Eligibility", "Exclusion: chunk")>>
    [] e.type = "batch_complete" ->
         <<Frame("step_progress", "Assess Eligibility", "Batch done")>>
    [] e.type = "super_batch_fallback" ->
         <<Frame("step_progress", "Assess Eligibility", "Falling back to sequential mode...")>>
    [] e.type = "trial_matched" -> <<Frame("trial_progress", "", "")>>
    [] e.type = "complete" -> <<Frame("response", "", "")>>
    [] e.type = "error" -> <<Frame("error", "", "Unknown error from backend")>>
    [] e.type = "heartbeat" -> <<Frame("step_progress", "Assess Eligibility", "Processing...")>>
    [] OTHER -> <<>>

\* the loop body of handleLocalMode: the frames enqueued for one graph event
LocalFrames(e) ==
  IF e.name = "LangGraph" THEN <<>>
  ELSE IF e.event = "on_chain_start" THEN <<Frame("step_start", e.name, "")>>
  ELSE <<Frame("step_complete", e.name, "")>>

RouteInit ==
  /\ route = IdleRoute
  /\ state = InitState
  /\ calls = [i \in Calls |-> IdleCall]
  /\ ncalls = 0
  /\ framesLeft = 0
  /\ last = Other
  /\ wire = IdleWire
  /\ session \in {IdleSession, KnownPatientSession}

\* POST with mode 'local': handleLocalMode starts its stream
PostLocal ==
  /\ route.handler = "none"
  /\ route' = [route EXCEPT !.handler = "local", !.status = 200]
  /\ UNCHANGED <<state, calls, ncalls, framesLeft, last, wire, session>>

\* POST with mode 'fastapi' and no matching to trigger: the profile extracted
\* from the message is merged into the session, the message and the answer
\* of the chat model (or the fallback) are pushed on the chat history, then
\* the response and the end marker
ChatServed(r, reply) ==
  /\ ~shouldTriggerMatchingFromMessage(r.message, session.patientProfile)
  /\ session' = AfterChat(session, r, reply)
  /\ route' = [IdleRoute EXCEPT !.handler = "chat", !.status = 200,
                                !.emitted = <<Frame("response", "", ""), Frame("done", "", "")>>,
                                !.closed = TRUE]

PostChat(r, reply) ==
  /\ route.handler = "none"
  /\ ChatServed(r, reply)
  /\ UNCHANGED <<state, calls, ncalls, framesLeft, last, wire>>

\* POST with mode 'fastapi' that triggers matching, the backend healthy: the
\* profile extracted from the message is merged into the session, the timer
\* is armed and the stream to the backend is opened
PostMatching(r) ==
  /\ route.handler = "none"
  /\ shouldTriggerMatchingFromMessage(r.message, session.patientProfile)
  /\ session' = [session EXCEPT
                   !.patientProfile = MergeSession(@, r.message, r.parsedProfile)]
  /\ route' = [route EXCEPT !.handler = "matching", !.status = 200, !.timeout = TRUE]
  /\ UNCHANGED <<state, calls, ncalls, framesLeft, last, wire>>

\* Faulty variant of PostUnavailable: the timer is armed before the health
\* check.
PostUnavailable_TimerArmed(r) ==
  /\ route.handler = "none"
  /\ shouldTriggerMatchingFromMessage(r.message, session.patientProfile)
  /\ session' = [session EXCEPT
                   !.patientProfile = MergeSession(@, r.message, r.parsedProfile)]
  /\ route' = [route EXCEPT !.handler = "unavailable", !.status = 503, !.timeout = TRUE]
  /\ UNCHANGED <<state, calls, ncalls, framesLeft, last, wire>>

\* POST with mode 'fastapi' that triggers matching, the health check of the
\* backend failing: the profile extracted from the message is merged into
\* the session, then the 503; no timer, no stream
PostUnavailable(r) ==
  /\ route.handler = "none"
  /\ shouldTriggerMatchingFromMessage(r.message, session.patientProfile)
  /\ session' = [session EXCEPT
                   !.patientProfile = MergeSession(@, r.message, r.parsedProfile)]
  /\ route' = [route EXCEPT !.handler = "unavailable", !.status = 503]
  /\ UNCHANGED <<state, calls, ncalls, framesLeft, last, wire>>

\* for await (const event of streamMatching(...)): one event of the backend
BackendEvent(e) ==
  /\ route.handler = "matching"
  /\ ~route.closed
  /\ Len(route.consumed) < MaxEvents
  /\ route' = [route EXCEPT !.consumed = Append(@, e),
                            !.emitted = @ \o Normalize(e),
                            !.matchingMode = IF e.type = "phase_start" /\ e.phase = "matching"
                                               THEN e.mode ELSE @]
  /\ UNCHANGED <<state, calls, ncalls, framesLeft, last, wire, session>>

\* the stream of the backend ends: the end marker, close, clearTimeout
BackendEnds ==
  /\ route.handler = "matching"
  /\ ~route.closed
  /\ route' = [route EXCEPT !.emitted = Append(@, Frame("done", "", "")),
                            !.closed = TRUE, !.timeout = FALSE]
  /\ UNCHANGED <<state, calls, ncalls, framesLeft, last, wire, session>>

\* streamMatching throws (the request fails, the backend answers non-2xx, a
\* read rejects), or the timer aborts it: the catch block
BackendThrows(msg) ==
  /\ route.handler = "matching"
  /\ ~route.closed
  /\ msg = TimedOutMsg => route.timeout
  /\ route' = [route EXCEPT !.emitted = Append(@, Frame("error", "", msg)),
                            !.closed = TRUE, !.timeout = FALSE]
  /\ UNCHANGED <<state, calls, ncalls, framesLeft, last, wire, session>>

\* for await (const event of streamEvents): one event of the graph
GraphEvent(e) ==
  /\ route.handler = "local"
  /\ ~route.closed
  /\ Len(route.consumed) < MaxEvents
  /\ route' = [route EXCEPT !.consumed = Append(@, e), !.emitted = @ \o LocalFrames(e)]
  /\ UNCHANGED <<state, calls, ncalls, framesLeft, last, wire, session>>

\* the events of the graph end: the session takes the profile of the final
\* state, then the response, the end marker, close
GraphEnds(finalProfile) ==
  /\ route.handler = "local"
  /\ ~route.closed
  /\ session' = [session EXCEPT
                   !.patientProfile = IF finalProfile # <<>> THEN finalProfile[1] ELSE @]
  /\ route' = [route EXCEPT !.emitted = @ \o <<Frame("response", "", ""), Frame("done", "", "")>>,
                            !.closed = TRUE]
  /\ UNCHANGED <<state, calls, ncalls, framesLeft, last, wire>>

\* the graph throws: the catch block of handleLocalMode
GraphThrows ==
  /\ route.handler = "local"
  /\ ~route.closed
  /\ route' = [route EXCEPT !.emitted = Append(@, Frame("error", "", "Processing error.")),
                            !.closed = TRUE]
  /\ UNCHANGED <<state, calls, ncalls, framesLeft, last, wire, session>>

RouteNext ==
  \/ PostLocal
  \/ \E r \in Requests, reply \in ChatReplies : PostChat(r, reply)
  \/ \E r \in Requests : PostMatching(r)
  \/ \E r \in Requests : PostUnavailable(r)
  \/ \E e \in RemoteEvents : BackendEvent(e)
  \/ BackendEnds
  \/ \E msg \in {"FastAPI error 500", TimedOutMsg} : BackendThrows(msg)
  \/ \E e \in GraphEvents : GraphEvent(e)
  \/ \E finalProfile \in FinalProfiles : GraphEnds(finalProfile)
  \/ GraphThrows

RouteSpec == RouteInit /\ [][RouteNext]_vars

-----------------------------------------------------------------------------
(* The chat branch of handleFastAPIMode at work on the requests of one      *)
(* session, one after the other.  The session has served up to MaxEarlier   *)
(* chat requests before (the same message, answered by the chat model       *)
(* each time); ncalls counts the requests of the run, each the fetch of one *)
(* call of sendMessage.                                                     *)

\* the Session after n chat requests with '58yo female NSCLC'
RECURSIVE SessionAfter(_)
SessionAfter(n) ==
  IF n = 0 THEN IdleSession
  ELSE AfterChat(SessionAfter(n - 1),
                 [message |-> "58yo female NSCLC", parsedProfile |-> IntakeDelta], <<QwenReply>>)

HistoryInit ==
  /\ session \in {SessionAfter(n) : n \in 0..MaxEarlier}
  /\ route = IdleRoute
  /\ state = InitState
  /\ calls = [i \in Calls |-> IdleCall]
  /\ ncalls = 0
  /\ framesLeft = 0
  /\ last = Other
  /\ wire = IdleWire

\* POST with mode 'fastapi' and no matching to trigger, on a session that
\* may have served requests before
HistoryChat(r, reply) ==
  /\ ncalls < MaxChats
  /\ ncalls' = ncalls + 1
  /\ ChatServed(r, reply)
  /\ UNCHANGED <<state, calls, framesLeft, last, wire>>

HistoryNext == \E r \in Requests, reply \in ChatReplies : HistoryChat(r, reply)

HistorySpec == HistoryInit /\ [][HistoryNext]_vars

-----------------------------------------------------------------------------
(* The two merges of a profile delta at work on a run of deltas: case       *)
(* 'response' of the store on state.patientProfile, and the head of         *)
(* handleFastAPIMode on session.patientProfile.  Both profiles start empty, *)
(* as the store and a new Session create them, and change by merges only;   *)
(* a run takes place on one side.                                           *)

\* a response frame with data.patientData as given (absent, or a delta)
ResponseFrame(patientData) ==
  [type |-> "response", content |-> <<"done">>, patientData |-> patientData,
   trials |-> <<"NCT001">>, totalCost |-> 11]

MergeInit ==
  /\ state = InitState
  /\ calls = [i \in Calls |-> IdleCall]
  /\ ncalls = 0
  /\ framesLeft = 0
  /\ last = Other
  /\ wire = IdleWire
  /\ route = IdleRoute
  /\ session = IdleSession

\* case 'response' on a frame whose patientData is absent or a delta
MergeResponse(patientData) ==
  /\ session.side \in {"none", "store"}
  /\ Len(session.deltas) < MaxDeltas
  /\ state' = OnResponse(state, ResponseFrame(patientData))
  /\ session' = [session EXCEPT !.side = "store",
                                !.deltas = Append(@, patientData),
                                !.history = Append(@, state'.patientProfile)]
  /\ UNCHANGED <<calls, ncalls, framesLeft, last, wire, route>>

\* the head of handleFastAPIMode on a message and the profile extracted from
\* it, up to the merge
MergeExtracted(message, parsedProfile) ==
  /\ session.side \in {"none", "route"}
  /\ Len(session.deltas) < MaxDeltas
  /\ session' = [session EXCEPT
                   !.patientProfile = MergeSession(@, message, parsedProfile),
                   !.side = "route",
                   !.deltas = Append(@, <<parsedProfile>>),
                   !.history = Append(@, MergeSession(session.patientProfile, message,
                                                      parsedProfile))]
  /\ UNCHANGED <<state, calls, ncalls, framesLeft, last, wire, route>>

MergeNext ==
  \/ \E patientData \in {<<>>} \cup {<<d>> : d \in Deltas} : MergeResponse(patientData)
  \/ \E message \in Texts, parsedProfile \in Deltas : MergeExtracted(message, parsedProfile)

MergeSpec == MergeInit /\ [][MergeNext]_vars

-----------------------------------------------------------------------------
(* One turn of the store whose stream delivers the frames of a complete     *)
(* matching run, one frame per chunk, in order: framesLeft counts the       *)
(* frames still to come.  Costs are counted in thousandths.                 *)

ScenarioFrames ==
  <<[type |-> "step_start", step |-> "Retrieve Trials", message |-> <<>>],
    [type |-> "step_complete", step |-> "Retrieve Trials", cost |-> <<1>>],
    [type |-> "step_start", step |-> "Pre-filter", message |-> <<>>],
    [type |-> "step_complete", step |-> "Pre-filter", cost |-> <<>>],
    [type |-> "step_start", step |-> "Assess Eligibility", message |-> <<>>],
    [type |-> "trial_progress", nctId |-> "NCT001", title |-> "Trial 1", index |-> 1,
     total |-> 3, status |-> "matched", confidence |-> <<90>>],
    [type |-> "step_complete", step |-> "Assess Eligibility", cost |-> <<10>>],
    [type |-> "step_start", step |-> "Rank & Report", message |-> <<>>],
    [type |-> "response", content |-> <<"done">>, patientData |-> <<>>,
     trials |-> <<"NCT001", "NCT002", "NCT003">>, totalCost |-> 11]>>

ScenarioInit ==
  /\ state = InitState
  /\ calls = [i \in Calls |-> IdleCall]
  /\ ncalls = 0
  /\ framesLeft = Len(ScenarioFrames)
  /\ last = Other
  /\ wire = IdleWire
  /\ route = IdleRoute
  /\ session = IdleSession

\* the one call of sendMessage of the run
ScenarioStart(content) == ncalls = 0 /\ SendMessage(content)

\* await reader.read() yields the next frame of the run
ScenarioFrame ==
  /\ framesLeft > 0
  /\ ReadChunk(1, ScenarioFrames[Len(ScenarioFrames) - framesLeft + 1])

ScenarioNext ==
  \/ \E t \in Texts : ScenarioStart(t)
  \/ FetchOk(1)
  \/ ScenarioFrame
  \/ Tick(1)
  \/ HeartbeatCheck(1)
  \/ ReadDone(1)

ScenarioSpec == ScenarioInit /\ [][ScenarioNext]_vars

-----------------------------------------------------------------------------
(* The store and the route together, in mode 'fastapi': the turns of one    *)
(* session, one after the other.  fetch posts the message to the route; the *)
(* status of the Response decides how fetch settles; the frames the route   *)
(* has enqueued arrive one per chunk, in order.  framesLeft counts the      *)
(* chunks the response stream of the turn may still deliver.                *)

\* the profile of the session as data.patientData of a response frame
AsPatientData(profile) ==
  <<Delta(profile.scalars, <<profile.biomarkers>>, <<profile.priorTreatments>>)>>

\* JSON.parse of a frame the route has enqueued, as the switch reads it
ClientFrame(fr, profile) ==
  CASE fr.type = "step_start" ->
         [type |-> "step_start", step |-> fr.step,
          message |-> IF fr.detail = "" THEN <<>> ELSE <<fr.detail>>]
    [] fr.type = "step_complete" -> [type |-> "step_complete", step |-> fr.step, cost |-> <<>>]
    [] fr.type = "step_progress" ->
         [type |-> "step_progress", step |-> fr.step, detail |-> <<fr.detail>>, message |-> <<>>]
    [] fr.type = "trial_progress" ->
         [type |-> "trial_progress", nctId |-> "NCT001", title |-> "Trial 1", index |-> 1,
          total |-> 3, status |-> "matched", confidence |-> <<90>>]
    [] fr.type = "response" -> ResponseFrame(AsPatientData(profile))
    [] fr.type = "error" -> [type |-> "error", message |-> fr.detail]
    [] OTHER -> [type |-> "done"]

\* the frames of the response stream that the store has read
Delivered == MaxDelivered - framesLeft

RequestInit ==
  /\ state = InitState
  /\ calls = [i \in Calls |-> IdleCall]
  /\ ncalls = 0
  /\ framesLeft = MaxDelivered
  /\ last = Other
  /\ wire = IdleWire
  /\ route = IdleRoute
  /\ session = IdleSession

\* sendMessage, called when no turn is in flight
RequestStart(content) ==
  /\ \A i \in Calls : ~InFlight(i)
  /\ route.handler = "none"
  /\ SendMessage(content)

\* the request of the turn reaches the route
RequestPosted(r) ==
  /\ ncalls > 0
  /\ calls[ncalls].pc = "fetching"
  /\ r.message = calls[ncalls].content
  /\ \/ \E reply \in ChatReplies : PostChat(r, reply)
     \/ PostMatching(r)
     \/ PostUnavailable(r)

\* fetch settles with the Response of the route: ok, or 'Failed'
RequestSettles ==
  /\ ncalls > 0
  /\ \/ route.status = 200 /\ FetchOk(ncalls)
     \/ route.status = 503 /\ FetchFails(ncalls, "Failed")

\* one event of the backend, or its end, or a failure of its stream
RequestBackend ==
  \/ \E e \in RemoteEvents : Len(route.consumed) < MaxTurnEvents /\ BackendEvent(e)
  \/ BackendEnds
  \/ BackendThrows("FastAPI error 500")

\* await reader.read() yields the next frame the route has enqueued
RequestFrame ==
  /\ ncalls > 0
  /\ Delivered < Len(route.emitted)
  /\ ReadChunk(ncalls, ClientFrame(route.emitted[Delivered + 1], session.patientProfile))

\* await reader.read() yields done: the route has closed the stream and
\* every frame was read, or the reader was cancelled
RequestStreamEnds ==
  /\ ncalls > 0
  /\ \/ route.closed /\ Delivered = Len(route.emitted)
     \/ calls[ncalls].cancelled
  /\ ReadDone(ncalls)

\* the request has been served: the next one gets a handler and a stream of
\* its own
RequestServed ==
  /\ ncalls > 0
  /\ calls[ncalls].pc = "done"
  /\ route.handler # "none"
  /\ route' = IdleRoute
  /\ framesLeft' = MaxDelivered
  /\ UNCHANGED <<state, calls, ncalls, last, wire, session>>

RequestNext ==
  \/ \E r \in Requests : RequestStart(r.message)
  \/ \E r \in Requests : RequestPosted(r)
  \/ RequestSettles
  \/ RequestBackend
  \/ RequestFrame
  \/ \E i \in Calls : Tick(i)
  \/ \E i \in Calls : HeartbeatCheck(i)
  \/ RequestStreamEnds
  \/ RequestServed

RequestSpec == RequestInit /\ [][RequestNext]_vars

-----------------------------------------------------------------------------
(* Vocabulary of the statements *)

Statuses == {state.pipelineSteps[k].status : k \in 1..Len(state.pipelineSteps)}

LastMessage == state.messages[Len(state.messages)]

\* a run with one call of sendMessage, no retry and no reset
SingleTurn == ncalls = 1 /\ state.sessionId = 0

-----------------------------------------------------------------------------
(* C1 *)

\* C1: at most one turn is in flight, and a sendMessage that finds an earlier
\* call not yet returned starts no turn.
C1_SessionBusy ==
  /\ Cardinality({i \in Calls : InFlight(i)}) <= 1
  /\ last.op = "sendMessage" => ~last.busy

-----------------------------------------------------------------------------
(* C2 *)

\* C2 as stated: right after a response frame or an error frame is applied,
\* no stage is pending or running.
C2_NoStageLeftOpen ==
  last.op \in {"response", "error"} => Statuses \cap {"pending", "running"} = {}

\* C2 amended: right after a response frame no stage is pending or running;
\* right after an error frame no stage is running (a pending stage stays
\* pending).
C2_DefensiveFinalization ==
  /\ last.op = "response" => Statuses \cap {"pending", "running"} = {}
  /\ last.op = "error" => "running" \notin Statuses

\* an error frame has turned a running stage into error and left others pending
C2_Witness ==
  /\ last.op = "error"
  /\ "error" \in Statuses
  /\ "pending" \in Statuses

-----------------------------------------------------------------------------
(* C3 *)

\* C3: when a call that applied a response frame (and no error frame) returns
\* without a failure, every stage is complete.  Stated for a single turn.
C3_AllCompleteAtSuccessfulEnd ==
  (/\ SingleTurn
   /\ last.op = "return"
   /\ calls[last.call].sawResponse
   /\ ~calls[last.call].sawError)
  => Statuses = {"complete"}

-----------------------------------------------------------------------------
(* C4 *)

\* C4: every call that has returned has run its finally block exactly once, a
\* call that has not returned has not run it, isLoading is false right after
\* a call returns (by a failure or without one), and it is false whenever no
\* call is in flight.
C4_EndTurnAlwaysRuns ==
  /\ \A i \in Calls : calls[i].ended = (IF calls[i].pc = "done" THEN 1 ELSE 0)
  /\ last.op \in {"failure", "return"} => ~state.isLoading
  /\ (\A i \in Calls : ~InFlight(i)) => ~state.isLoading

\* one call has returned after a response, another after a heartbeat timeout
C4_Witness ==
  \E i, j \in Calls :
    /\ calls[i].pc = "done" /\ calls[i].failure = "none" /\ calls[i].sawResponse
    /\ calls[j].pc = "done" /\ calls[j].failure = ConnectionLostMsg
    /\ ~state.isLoading

-----------------------------------------------------------------------------
(* C5 *)

\* C5: the timer marks the stream dead only when more than the timeout has
\* passed since the last data, and it then cancels the reader and no data is
\* handled any more; the reader is cancelled by nothing else; a call whose
\* stream was marked dead ends with the connection-lost error as its failure
\* and as the last entry of the log; and no call that was not marked dead
\* ends with the connection-lost error.
C5_HeartbeatTimeout ==
  /\ \A i \in Calls :
       /\ calls[i].heartbeatDead = calls[i].cancelled
       /\ (calls[i].heartbeatDead /\ calls[i].pc = "reading")
            => calls[i].sinceEvent > HEARTBEAT_TIMEOUT_MS
       /\ calls[i].pc = "done"
            => (calls[i].heartbeatDead <=> calls[i].failure = ConnectionLostMsg)
  /\ (last.op = "failure" /\ calls[last.call].heartbeatDead)
       => LastMessage = AssistantMessage(ErrorContent(ConnectionLostMsg))

\* a call has ended by the heartbeat timeout after data had arrived
C5_Witness ==
  \E i \in Calls :
    /\ calls[i].pc = "done"
    /\ calls[i].heartbeatDead
    /\ calls[i].sawError
    /\ last = Event("failure", i)
    /\ LastMessage = AssistantMessage(ErrorContent(ConnectionLostMsg))

-----------------------------------------------------------------------------
(* C6 *)

\* C6: the interval is armed only while the call is in its read loop and its
\* stream has not been marked dead; once the loop has ended it is not armed.
C6_TimerTornDown ==
  \A i \in Calls :
    calls[i].heartbeatChecker => (calls[i].pc = "reading" /\ ~calls[i].heartbeatDead)

\* the loops of two calls have ended, one by a rejected read and one by the
\* heartbeat
C6_Witness ==
  \E i, j \in Calls :
    /\ calls[i].pc = "done" /\ calls[i].opened /\ calls[i].failure = NetworkErrorMsg
    /\ calls[j].pc = "done" /\ calls[j].opened /\ calls[j].heartbeatDead
    /\ ~calls[i].heartbeatChecker /\ ~calls[j].heartbeatChecker

-----------------------------------------------------------------------------
(* C7 *)

\* C7: a call that is in its read loop eventually returns with isLoading set
\* to false, whatever the server does.  The streams deliver finitely many
\* chunks (framesLeft), and nothing obliges them to close: when the server
\* neither sends nor closes, the only way to the return is the heartbeat
\* (C5: the reader is cancelled and the connection-lost error is appended).
C7_SilentDeathEnds ==
  \A i \in Calls :
    (calls[i].pc = "reading") ~> (calls[i].pc = "done" /\ ~state.isLoading)

\* a stream that delivered nothing was cancelled and its turn has ended
C7_Witness ==
  /\ framesLeft = LiveFrames
  /\ \E i \in Calls : calls[i].pc = "done" /\ calls[i].cancelled /\ calls[i].caught = 1
  /\ ~state.isLoading

-----------------------------------------------------------------------------
(* C8 *)

\* C8: right after a stream-level failure is caught, the call has appended
\* one error entry, it is the last entry of the log, and lastUserMessage is
\* the text of the failed turn.  Stated for a single turn.
C8_FailureKeepsRetry ==
  (SingleTurn /\ last.op = "failure")
  => /\ calls[last.call].caught = 1
     /\ IsErrorMessage(LastMessage)
     /\ state.lastUserMessage = <<calls[last.call].content>>

-----------------------------------------------------------------------------
(* C9 *)

\* C9: when a turn has ended, lastUserMessage is null if a response frame was
\* applied, and is the text of the turn if an error frame was applied or a
\* stream-level failure was caught.  Stated for a single turn.
C9_RetryPointer ==
  (SingleTurn /\ last.op \in {"failure", "return"})
  => /\ calls[last.call].sawResponse => state.lastUserMessage = <<>>
     /\ (calls[last.call].sawError \/ calls[last.call].failure # "none")
          => state.lastUserMessage = <<calls[last.call].content>>

-----------------------------------------------------------------------------
(* C10 *)

\* C10: retryLastMessage called while isLoading is true starts no turn.
C10_RetryNoopWhileLoading == last.op = "retry" => ~last.loading

-----------------------------------------------------------------------------
(* C11 *)

UserTurns(ms) == Cardinality({k \in 1..Len(ms) : ms[k].role = "user"})

\* the log before sendMessage appends the user entry again
Stripped(messages) == SubSeq(messages, 1, Len(messages) - 1)

\* a retry that finds an error entry at the end of the log has started a turn
RetryAfterError ==
  /\ last'.op = "retry"
  /\ ncalls' = ncalls + 1
  /\ Len(state.messages) > 0
  /\ IsErrorMessage(LastMessage)

\* C11 as stated: a retry that starts with an error entry at the end of the
\* log leaves the log, before sendMessage appends to it, without a trailing
\* error entry and with one user entry fewer, every entry before the user
\* entry of the failed turn is kept as it was, and the text sent again is the
\* text of the failed turn.
C11_NoTrailingError ==
  [][RetryAfterError
     => LET before == state.messages
            text == calls'[ncalls'].content
            stripped == Stripped(state'.messages)
        IN /\ state'.messages = Append(stripped, UserMessage(text))
           /\ (stripped = <<>> \/ ~IsErrorMessage(stripped[Len(stripped)]))
           /\ UserTurns(stripped) = UserTurns(before) - 1
           /\ Len(stripped) < Len(before)
           /\ stripped = SubSeq(before, 1, Len(stripped))
           /\ before[Len(stripped) + 1] = UserMessage(text)
    ]_vars

\* C11 amended: such a retry removes the error entries at the end of the log
\* and the user entry before them, and nothing else: the log it leaves is the
\* log as it was before the failed turn began (which ends with an error entry
\* when the turn before failed too and was not retried), it has one user
\* entry fewer, and the text sent again is the text of the removed user
\* entry.
C11_RetryRollsBack ==
  [][RetryAfterError
     => LET before == state.messages
            text == calls'[ncalls'].content
            stripped == Stripped(state'.messages)
        IN /\ state'.messages = Append(stripped, UserMessage(text))
           /\ UserTurns(stripped) = UserTurns(before) - 1
           /\ Len(stripped) < Len(before)
           /\ stripped = SubSeq(before, 1, Len(stripped))
           /\ before[Len(stripped) + 1] = UserMessage(text)
           /\ \A k \in (Len(stripped) + 2)..Len(before) : IsErrorMessage(before[k])
    ]_vars

\* a retry has sent the text of a failed turn again and has kept the two
\* entries of the failed turn before it
C11_Witness ==
  /\ last.op = "retry"
  /\ ncalls = 1
  /\ Len(state.messages) = 3
  /\ state.messages[1].role = "user"
  /\ IsErrorMessage(state.messages[2])
  /\ state.messages[3] = UserMessage(calls[1].content)
  /\ state.messages[3] # state.messages[1]

-----------------------------------------------------------------------------
(* C12 *)

\* C12: a call of retryLastMessage that finds lastUserMessage null changes
\* nothing: no entry of the state, no activation, no request.
C12_RetryNoopWithoutPointer ==
  [][(state.lastUserMessage = <<>> /\ RetryLastMessage)
     => UNCHANGED <<state, calls, ncalls, framesLeft>>]_vars

\* a second retry, after the first one has succeeded, has found no text
C12_Witness ==
  /\ last.op = "retryNoop"
  /\ calls[1].failure # "none"
  /\ calls[2].pc = "done"
  /\ calls[2].sawResponse
  /\ state.lastUserMessage = <<>>

-----------------------------------------------------------------------------
(* C13 *)

\* C13: however the bytes delivered so far were cut into chunks, each decoder
\* has produced the frames it produces when the same bytes arrive as one
\* chunk, in the same order.
C13_ChunkingInvariance ==
  LET delivered == SubSeq(wire.stream, 1, wire.pos)
  IN /\ wire.reader.frames = ReadLoopBody(NewDecoder, delivered).frames
     /\ wire.parser.frames = ParseSSEChunk(NewDecoder, delivered).frames

\* a stream of two frames has arrived whole, in chunks that ended between the
\* newlines of a separator and between the bytes of a character
C13_Witness ==
  /\ wire.pos = Len(wire.stream)
  /\ wire.splitSeparator
  /\ wire.splitChar
  /\ wire.reader.frames = <<[type |-> <<"step_start">>, content |-> <<>>],
                            [type |-> <<"response">>, content |-> <<WideChar>>]>>
  /\ wire.parser.frames = wire.reader.frames

-----------------------------------------------------------------------------
(* C14 *)

AssistantEntries(ms) == Cardinality({k \in 1..Len(ms) : ms[k].role = "assistant"})

\* C14: when the stream has ended, the text after the last separator is still
\* in the buffer of each decoder and was passed on by neither: no decoder has
\* produced more frames than the stream has separators, and the log has one
\* assistant entry for every response frame that a separator follows, none
\* for a response payload in the tail.
C14_LeftoverDiscarded ==
  calls[1].pc = "done" /\ wire.stream # <<>>
  => /\ wire.reader.buffer = DecodeBytes(FALSE, TailText(wire.tail)).text
     /\ wire.parser.buffer = wire.reader.buffer
     /\ Len(wire.reader.frames) <= Len(wire.kinds)
     /\ Len(wire.parser.frames) <= Len(wire.kinds)
     /\ AssistantEntries(state.messages)
          = Cardinality({k \in 1..Len(wire.kinds) : wire.kinds[k] = "response"})

\* a stream whose only content is a whole response payload without its
\* separator has ended, and the log has the user entry alone
C14_Witness ==
  /\ calls[1].pc = "done"
  /\ wire.kinds = <<>>
  /\ wire.tail = "response"
  /\ wire.reader.buffer = <<"data:", SP, "{", "response", WideChar, "}">>
  /\ state.messages = <<UserMessage("find trials")>>
  /\ ~state.isLoading

-----------------------------------------------------------------------------
(* C15 *)

\* the frame the switch handles for a frame of the stream, if it handles one
HandledFrame(kind) ==
  CASE kind = "step_start" ->
         <<[type |-> "step_start", step |-> "Retrieve Trials", message |-> <<>>]>>
    [] kind = "response" ->
         <<[type |-> "response", content |-> <<"done", WideChar>>, patientData |-> <<>>,
            trials |-> <<"NCT001">>, totalCost |-> 11]>>
    [] OTHER -> <<>>

\* the object parseSSEStream yields for a frame of the stream, if it yields one
YieldedEvent(kind) ==
  CASE kind \in {"step_start", "event"} -> <<[type |-> <<"step_start">>, content |-> <<>>]>>
    [] kind = "response" -> <<[type |-> <<"response">>, content |-> <<WideChar>>]>>
    [] kind = "mystery" -> <<[type |-> <<"mystery">>, content |-> <<>>]>>
    [] OTHER -> <<>>

\* C15: a frame that is not JSON, has an unknown type or no data marker is
\* skipped and nothing else is: no failure is caught and the turn goes on,
\* and when the stream has arrived whole the store is what the well-formed
\* frames of known type make of it, applied in their order, and
\* parseSSEStream has yielded every frame whose payload is JSON, in order.
C15_BadFrameDropped ==
  /\ calls[1].caught = 0
  /\ calls[1].failure = "none"
  /\ wire.pos < Len(wire.stream) => calls[1].pc = "reading"
  /\ (wire.stream # <<>> /\ wire.pos = Len(wire.stream) /\ calls[1].pc = "reading")
     => /\ state = ApplyFrames(Begin(InitState, "find trials"),
                               Flat([k \in 1..Len(wire.kinds) |-> HandledFrame(wire.kinds[k])]))
        /\ wire.parser.frames = Flat([k \in 1..Len(wire.kinds) |-> YieldedEvent(wire.kinds[k])])

\* a response frame that followed a frame that is not JSON has been applied
C15_Witness ==
  /\ wire.pos = Len(wire.stream)
  /\ wire.kinds = <<"malformed", "response">>
  /\ calls[1].pc = "reading"
  /\ Len(state.messages) = 2
  /\ LastMessage = AssistantMessage(<<"done", WideChar>>)
  /\ wire.parser.frames = <<[type |-> <<"response">>, content |-> <<WideChar>>]>>

-----------------------------------------------------------------------------
(* C16 - C19: vocabulary *)

\* a step of the route that consumes one event of the backend
Consumes(type) ==
  /\ route.handler = "matching"
  /\ Len(route'.consumed) = Len(route.consumed) + 1
  /\ route'.consumed[Len(route'.consumed)].type = type

\* the frames the step has enqueued
Enqueued == SubSeq(route'.emitted, Len(route.emitted) + 1, Len(route'.emitted))

\* the places of the frames of a type for a stage
Places(frames, type, step) ==
  {k \in 1..Len(frames) : frames[k].type = type /\ frames[k].step = step}

\* the places of the frames that name a stage
Addressed(frames, step) == {k \in 1..Len(frames) : frames[k].step = step}

-----------------------------------------------------------------------------
(* C16 *)

\* C16: the step that handles phase_start of the matching phase with a mode
\* other than super_batch enqueues step_start for Pre-filter, after it
\* step_complete for Pre-filter, and only after that step_start for Assess
\* Eligibility; nothing else names Assess Eligibility before.
C16_SequentialFallback ==
  [][(/\ Consumes("phase_start")
      /\ route'.consumed[Len(route'.consumed)].phase = "matching"
      /\ route'.consumed[Len(route'.consumed)].mode # "super_batch")
     => \E a, b, c \in 1..Len(Enqueued) :
          /\ a < b /\ b < c
          /\ a \in Places(Enqueued, "step_start", "Pre-filter")
          /\ b \in Places(Enqueued, "step_complete", "Pre-filter")
          /\ c \in Places(Enqueued, "step_start", "Assess Eligibility")
          /\ \A k \in Addressed(Enqueued, "Assess Eligibility") : c <= k
    ]_vars

\* the matching phase has started in sequential mode after the retrieval
\* phase, and no pre-filter event has followed before the stream ended
C16_Witness ==
  /\ route.handler = "matching"
  /\ route.closed
  /\ Len(route.consumed) = 2
  /\ route.consumed[1].phase = "retrieval"
  /\ route.consumed[2] = [type |-> "phase_start", phase |-> "matching", mode |-> "sequential"]
  /\ route.matchingMode = "sequential"
  /\ route.emitted = <<Frame("step_start", "Retrieve Trials", ""),
                       Frame("step_start", "Pre-filter", ""),
                       Frame("step_complete", "Pre-filter", ""),
                       Frame("step_start", "Assess Eligibility", "Sequential matching"),
                       Frame("done", "", "")>>

-----------------------------------------------------------------------------
(* C17 *)

\* the matching phase has started in super_batch mode and no
\* prefilter_complete has come since
BatchedWithoutPrefilter ==
  /\ route.matchingMode = "super_batch"
  /\ \E k \in 1..Len(route.consumed) :
        /\ route.consumed[k].type = "phase_start" /\ route.consumed[k].phase = "matching"
        /\ \A j \in (k + 1)..Len(route.consumed) :
              route.consumed[j].type \notin {"prefilter_complete", "phase_start"}

\* C17: the step that handles super_batch_fallback, when the matching phase
\* started in super_batch mode and no prefilter_complete has come, enqueues
\* step_complete for Pre-filter and after it step_start for Assess
\* Eligibility, before any other frame that names Assess Eligibility.
C17_MidStreamFallback ==
  [][(Consumes("super_batch_fallback") /\ BatchedWithoutPrefilter)
     => \E b, c \in 1..Len(Enqueued) :
          /\ b < c
          /\ b \in Places(Enqueued, "step_complete", "Pre-filter")
          /\ c \in Places(Enqueued, "step_start", "Assess Eligibility")
          /\ \A k \in Addressed(Enqueued, "Assess Eligibility") : c <= k
    ]_vars

-----------------------------------------------------------------------------
(* C18 *)

\* the stages started and not completed since, by the frames enqueued
Open(frames) ==
  {k \in 1..Len(frames) :
     /\ frames[k].type = "step_start"
     /\ \A j \in (k + 1)..Len(frames) :
           ~(frames[j].type = "step_complete" /\ frames[j].step = frames[k].step)}

\* the stage started last among them
ActiveStage(frames) == frames[CHOOSE k \in Open(frames) : \A j \in Open(frames) : j <= k].step

\* C18: the step that handles a heartbeat while a stage is active enqueues
\* one step_progress frame, and it names the active stage.
C18_HeartbeatOnActiveStage ==
  [][(Consumes("heartbeat") /\ Open(route.emitted) # {})
     => /\ Len(Enqueued) = 1
        /\ Enqueued[1].type = "step_progress"
        /\ Enqueued[1].step = ActiveStage(route.emitted)
    ]_vars

-----------------------------------------------------------------------------
(* C19 *)

\* C19: when the route has closed a response stream, the last frame it
\* enqueued is the end marker.
C19_DoneTerminates ==
  route.closed
  => /\ route.emitted # <<>>
     /\ route.emitted[Len(route.emitted)].type = "done"

-----------------------------------------------------------------------------
(* C20 *)

\* C20: in a step that neither starts a turn nor resets the session, a stage
\* that is complete or error keeps its status, a pending stage stays pending
\* or becomes running (or complete, when the step applies a response frame),
\* and a running stage stays running or becomes complete or error.
C20_StageLifecycle ==
  [][(ncalls' = ncalls /\ state'.sessionId = state.sessionId)
     => \A k \in 1..Len(PIPELINE_STEPS) :
          LET a == state.pipelineSteps[k].status
              b == state'.pipelineSteps[k].status
          IN /\ a \in {"complete", "error"} => b = a
             /\ a = "pending" => \/ b \in {"pending", "running"}
                                 \/ b = "complete" /\ last'.op = "response"
             /\ a = "running" => b \in {"running", "complete", "error"}
    ]_vars

-----------------------------------------------------------------------------
(* C21 *)

\* C21: the step that applies an error frame or catches a stream-level
\* failure turns every running stage into error, leaves the status of every
\* other stage as it was and leaves isPipelineRunning false; and in no step
\* at all does a stage that is pending or complete become error.
C21_ErrorMarksRunning ==
  [][/\ last'.op \in {"error", "failure"}
        => /\ \A k \in 1..Len(PIPELINE_STEPS) :
                state'.pipelineSteps[k].status =
                  (IF state.pipelineSteps[k].status = "running" THEN "error"
                   ELSE state.pipelineSteps[k].status)
           /\ ~state'.isPipelineRunning
     /\ \A k \in 1..Len(PIPELINE_STEPS) :
           (state'.pipelineSteps[k].status = "error" /\ state.pipelineSteps[k].status # "error")
             => state.pipelineSteps[k].status = "running"
    ]_vars

\* a stream-level failure was caught with one stage complete, one running
\* and the others pending: the running one is error, the others are as they
\* were
C21_Witness ==
  /\ last.op = "failure"
  /\ state.pipelineSteps[1].status = "complete"
  /\ state.pipelineSteps[3].status = "error"
  /\ state.pipelineSteps[2].status = "pending"
  /\ state.pipelineSteps[4].status = "pending"
  /\ ~state.isPipelineRunning

-----------------------------------------------------------------------------
(* C22 *)

\* C22: the step that applies a step_progress frame changes nothing but the
\* detail of the stage it names and matchingDetail: every stage keeps its
\* status, its cost and its place.  The step that applies a trial_progress
\* frame appends one entry to trialProgress and changes nothing else: the
\* entries before, the stages, the log, the profile, the trials and the cost
\* are as they were.
C22_ProgressKeepsStatus ==
  [][\A i \in Calls, f \in Frames :
       /\ (f.type = "step_progress" /\ ReadChunk(i, f))
            => /\ \A k \in 1..Len(PIPELINE_STEPS) :
                    LET a == state.pipelineSteps[k]
                        b == state'.pipelineSteps[k]
                    IN /\ b.status = a.status
                       /\ [b EXCEPT !.detail = a.detail] = a
                       /\ a.name # f.step => b = a
               /\ [state' EXCEPT !.pipelineSteps = state.pipelineSteps,
                                 !.matchingDetail = state.matchingDetail] = state
       /\ (f.type = "trial_progress" /\ ReadChunk(i, f))
            => /\ Len(state'.trialProgress) = Len(state.trialProgress) + 1
               /\ SubSeq(state'.trialProgress, 1, Len(state.trialProgress)) = state.trialProgress
               /\ state'.trialProgress[Len(state'.trialProgress)].nctId = f.nctId
               /\ [state' EXCEPT !.trialProgress = state.trialProgress] = state
    ]_vars

\* a step_progress frame for a stage not yet started and a trial_progress
\* frame have been applied: the stage is pending and has the detail, and
\* trialProgress has one entry
C22_Witness ==
  /\ state.pipelineSteps[1].status = "pending"
  /\ state.pipelineSteps[1].detail = <<"Processing...">>
  /\ state.matchingDetail = <<"Processing...">>
  /\ Len(state.trialProgress) = 1
  /\ Statuses = {"pending"}

-----------------------------------------------------------------------------
(* C23 *)

\* C23: right after sendMessage(text) has begun, the log is the log it found
\* and one user entry with that text after it (for a retry, the log that
\* retryLastMessage handed over), every stage is pending without cost or
\* detail, trialProgress is empty, isPipelineRunning is false,
\* lastUserMessage is text, and patientProfile is what it was.
C23_TurnStart ==
  [][last'.op \in {"sendMessage", "retry"}
     => LET text == calls'[last'.call].content
            found == IF last'.op = "retry" THEN StripFailed(state.messages) ELSE state.messages
        IN /\ state'.messages = Append(found, UserMessage(text))
           /\ \A k \in 1..Len(PIPELINE_STEPS) :
                 /\ state'.pipelineSteps[k].name = PIPELINE_STEPS[k]
                 /\ state'.pipelineSteps[k].status = "pending"
                 /\ state'.pipelineSteps[k].cost = <<>>
                 /\ state'.pipelineSteps[k].detail = <<>>
           /\ Len(state'.pipelineSteps) = Len(PIPELINE_STEPS)
           /\ state'.trialProgress = <<>>
           /\ ~state'.isPipelineRunning
           /\ state'.lastUserMessage = <<text>>
           /\ state'.patientProfile = state.patientProfile
    ]_vars

\* a second turn has begun after a turn that ended with a response carrying
\* a profile: the log has its three entries, the stages are pending again
\* and the profile is still the merged one
C23_Witness ==
  /\ last.op = "sendMessage"
  /\ last.call = 2
  /\ calls[1].pc = "done"
  /\ calls[1].sawResponse
  /\ Len(state.messages) = 3
  /\ LastMessage = UserMessage(calls[2].content)
  /\ Statuses = {"pending"}
  /\ state.trialProgress = <<>>
  /\ state.patientProfile = MergeProfile(createEmptyPatientProfile, <<SampleDelta>>)
  /\ state.lastUserMessage = <<calls[2].content>>

-----------------------------------------------------------------------------
(* C24 *)

\* call i is in its turn alone, has applied no response or error frame yet,
\* and every call before it has returned after a response, without an error
\* frame or a failure, before the turn of i began (isLoading is still true,
\* the log ends with the user entry of i, and an answer follows every user
\* entry before it); the session was not reset
SuccessfulSoFar(i) ==
  /\ state.sessionId = 0
  /\ state.isLoading
  /\ ~calls[i].sawResponse /\ ~calls[i].sawError
  /\ Len(state.messages) > 0
  /\ LastMessage = UserMessage(calls[i].content)
  /\ Answered(SubSeq(state.messages, 1, Len(state.messages) - 1))
  /\ \A j \in Calls \ {i} :
        \/ calls[j].pc = "idle"
        \/ /\ calls[j].pc = "done" /\ calls[j].failure = "none"
           /\ calls[j].sawResponse /\ ~calls[j].sawError

\* C24: in a run of successful turns, the step that applies the response
\* frame of a turn adds the totalCost of the frame to state.totalCost (so
\* that totalCost is the sum of the costs of the response frames so far).
C24_CostAccumulates ==
  [][\A i \in Calls, f \in Frames :
       (f.type = "response" /\ SuccessfulSoFar(i) /\ ReadChunk(i, f))
         => state'.totalCost = state.totalCost + f.totalCost
    ]_vars

-----------------------------------------------------------------------------
(* C25 - C29: vocabulary *)

\* a step that merges: its delta (absent for a response frame without
\* patientData), the profile before and the profile after
Merges == Len(session'.deltas) = Len(session.deltas) + 1

MergedDelta == session'.deltas[Len(session'.deltas)]

Current == IF session'.side = "store" THEN state.patientProfile ELSE session.patientProfile

Merged == IF session'.side = "store" THEN state'.patientProfile ELSE session'.patientProfile

\* rawText is the free-text source of the profile: the route sets it to the
\* message, it is not a field of the delta
SourceField == IF session'.side = "route" THEN {"rawText"} ELSE {}

-----------------------------------------------------------------------------
(* C25 *)

\* C25: in a step that merges a delta, in the store or in the route, every
\* scalar field that the delta defines has the value of the delta in the
\* merged profile, and every other scalar field is defined in the merged
\* profile exactly when it was defined before, with the value it had; a
\* response frame without patientData leaves the profile as it was.
C25_ScalarsKept ==
  [][Merges
     => IF MergedDelta = <<>> THEN Merged = Current
        ELSE LET d == MergedDelta[1].scalars
                 a == Current.scalars
                 b == Merged.scalars
             IN \A f \in (DOMAIN a \cup DOMAIN d \cup DOMAIN b) \ SourceField :
                  IF f \in DOMAIN d
                    THEN f \in DOMAIN b /\ b[f] = d[f]
                    ELSE f \in DOMAIN a /\ f \in DOMAIN b /\ b[f] = a[f]
    ]_vars

\* the store has merged three response frames: the age of the first was
\* kept by the second, which defined the stage only, and was replaced by
\* the third, which kept the stage
C25_Witness ==
  /\ session.side = "store"
  /\ Len(session.deltas) = 3
  /\ session.history[1].scalars = [f \in {"age"} |-> 58]
  /\ session.history[2].scalars = [f \in {"age", "stage"} |-> IF f = "age" THEN 58 ELSE "Stage IV"]
  /\ state.patientProfile.scalars =
       [f \in {"age", "stage"} |-> IF f = "age" THEN 61 ELSE "Stage IV"]
  /\ session.deltas[2] = <<Delta([f \in {"stage"} |-> "Stage IV"], <<>>, <<>>)>>

-----------------------------------------------------------------------------
(* C26 *)

Range(xs) == {xs[k] : k \in 1..Len(xs)}

\* the entries of xs that are not in `seen` and not earlier in xs, in order
RECURSIVE NotYetPresent(_, _)
NotYetPresent(seen, xs) ==
  IF xs = <<>> THEN <<>>
  ELSE IF Head(xs) \in seen THEN NotYetPresent(seen, Tail(xs))
  ELSE <<Head(xs)>> \o NotYetPresent(seen \cup {Head(xs)}, Tail(xs))

\* the priorTreatments of the delta of a merging step ([] when it has none)
DeltaTreatments ==
  IF MergedDelta = <<>> \/ MergedDelta[1].priorTreatments = <<>> THEN <<>>
  ELSE MergedDelta[1].priorTreatments[1]

\* C26: in a step that merges a delta, the merged priorTreatments are the
\* current entries in their order, followed by the entries of the delta that
\* are not among them, each once, in the order of their first occurrence in
\* the delta; no entry occurs twice in the merged list.
C26_TreatmentsUnion ==
  [][Merges
     => LET a == Current.priorTreatments
            b == Merged.priorTreatments
        IN /\ b = a \o NotYetPresent(Range(a), DeltaTreatments)
           /\ \A i, j \in 1..Len(b) : b[i] = b[j] => i = j
    ]_vars

\* the route has merged a delta that names carboplatin twice, and then one
\* that names osimertinib before carboplatin: carboplatin is there once and
\* stays first
C26_Witness ==
  /\ session.side = "route"
  /\ session.deltas = <<<<Delta(<<>>, <<>>, <<<<"carboplatin", "carboplatin">>>>)>>,
                        <<Delta(<<>>, <<>>, <<<<"osimertinib", "carboplatin">>>>)>>>>
  /\ session.history[1].priorTreatments = <<"carboplatin">>
  /\ session.patientProfile.priorTreatments = <<"carboplatin", "osimertinib">>

-----------------------------------------------------------------------------
(* C27 *)

\* the biomarkers of the delta of a merging step ({} when it has none)
DeltaBiomarkers ==
  IF MergedDelta = <<>> \/ MergedDelta[1].biomarkers = <<>> THEN <<>>
  ELSE MergedDelta[1].biomarkers[1]

\* C27: in a step that merges a delta, the keys of the merged biomarkers are
\* the keys of the current map and the keys of the delta's map together; a
\* key of the delta has the delta's value, and a key of the current map
\* alone has its current value.
C27_BiomarkersKeywise ==
  [][Merges
     => LET a == Current.biomarkers
            d == DeltaBiomarkers
            b == Merged.biomarkers
        IN /\ DOMAIN b = DOMAIN a \cup DOMAIN d
           /\ \A k \in DOMAIN d : b[k] = d[k]
           /\ \A k \in DOMAIN a \ DOMAIN d : b[k] = a[k]
    ]_vars

\* the route has merged EGFR L858R, then EGFR Negative, then KRAS G12C: the
\* second value of EGFR has replaced the first, and has stayed when KRAS
\* came
C27_Witness ==
  /\ session.side = "route"
  /\ Len(session.deltas) = 3
  /\ session.history[1].biomarkers = [b \in {"EGFR"} |-> "L858R"]
  /\ session.history[2].biomarkers = [b \in {"EGFR"} |-> "Negative"]
  /\ session.patientProfile.biomarkers =
       [b \in {"EGFR", "KRAS"} |-> IF b = "EGFR" THEN "Negative" ELSE "G12C"]

-----------------------------------------------------------------------------
(* C28 *)

\* a delta that defines nothing: {}, or one with an empty map and an empty
\* list
DefinesNothing(d) ==
  /\ DOMAIN d.scalars = {}
  /\ d.biomarkers = <<>> \/ DOMAIN d.biomarkers[1] = {}
  /\ d.priorTreatments = <<>> \/ d.priorTreatments[1] = <<>>

\* C28: a step that merges a delta that defines nothing, in the store or in
\* the route, leaves the profile equal to what it was in every field.
C28_MergeIdentity ==
  [][(Merges /\ MergedDelta # <<>> /\ DefinesNothing(MergedDelta[1]))
     => /\ Merged = Current
        /\ state'.patientProfile = state.patientProfile
        /\ session'.patientProfile = session.patientProfile
    ]_vars

\* the store has merged {} into a profile that has an age, a biomarker and a
\* treatment, and the profile is the same
C28_Witness ==
  /\ session.side = "store"
  /\ session.deltas = <<<<SampleDelta>>, <<EmptyDelta>>>>
  /\ session.history[1] = [scalars |-> [f \in {"age"} |-> 58],
                           biomarkers |-> [b \in {"EGFR"} |-> "L858R"],
                           priorTreatments |-> <<"carboplatin">>]
  /\ session.history[2] = session.history[1]
  /\ state.patientProfile = session.history[1]

-----------------------------------------------------------------------------
(* C29 *)

\* the profile before the first merge of a run (0) and after its k-th merge
ProfileAt(k) == IF k = 0 THEN createEmptyPatientProfile ELSE session.history[k]

\* no scalar field and no biomarker is defined by both deltas
NoConflict(d1, d2) ==
  /\ DOMAIN d1.scalars \cap DOMAIN d2.scalars = {}
  /\ (d1.biomarkers = <<>> \/ d2.biomarkers = <<>>
       \/ DOMAIN d1.biomarkers[1] \cap DOMAIN d2.biomarkers[1] = {})

\* two maps as one, the second after the first
Both(a, b) == [k \in DOMAIN a \cup DOMAIN b |-> IF k \in DOMAIN b THEN b[k] ELSE a[k]]

\* the combination of two deltas in order: the fields of both, the
\* biomarkers of both, the treatments of the first and then of the second
Combine(d1, d2) ==
  Delta(Both(d1.scalars, d2.scalars),
        IF d1.biomarkers = <<>> THEN d2.biomarkers
        ELSE IF d2.biomarkers = <<>> THEN d1.biomarkers
        ELSE <<Both(d1.biomarkers[1], d2.biomarkers[1])>>,
        IF d1.priorTreatments = <<>> THEN d2.priorTreatments
        ELSE IF d2.priorTreatments = <<>> THEN d1.priorTreatments
        ELSE <<d1.priorTreatments[1] \o d2.priorTreatments[1]>>)

\* one merge on the side of the run
OneMerge(profile, d) ==
  IF session.side = "store" THEN MergeProfile(profile, <<d>>)
  ELSE MergeSession(profile, "", d)

\* a profile without its free-text source
WithoutSource(profile) ==
  [profile EXCEPT !.scalars = [f \in DOMAIN profile.scalars \ {"rawText"} |-> profile.scalars[f]]]

\* C29: whenever two deltas whose keys do not conflict were merged one after
\* the other into a profile, the profile after the second merge is the one
\* that a single merge of their combination into that profile gives (the
\* free-text source of the route aside, which is the message and not a
\* field of a delta).
C29_MergeSequence ==
  \A k \in 0..(Len(session.deltas) - 2) :
    LET d1 == session.deltas[k + 1]
        d2 == session.deltas[k + 2]
    IN (d1 # <<>> /\ d2 # <<>> /\ NoConflict(d1[1], d2[1]))
       => WithoutSource(ProfileAt(k + 2))
            = WithoutSource(OneMerge(ProfileAt(k), Combine(d1[1], d2[1])))

\* the store has merged, into a profile with an age, EGFR and carboplatin, a
\* delta with the stage and then a delta with KRAS and no scalar field
C29_Witness ==
  /\ session.side = "store"
  /\ session.deltas = <<<<SampleDelta>>,
                        <<Delta([f \in {"stage"} |-> "Stage IV"], <<>>, <<>>)>>,
                        <<Delta(<<>>, <<[b \in {"KRAS"} |-> "G12C"]>>, <<>>)>>>>
  /\ state.patientProfile =
       [scalars |-> [f \in {"age", "stage"} |-> IF f = "age" THEN 58 ELSE "Stage IV"],
        biomarkers |-> [b \in {"EGFR", "KRAS"} |-> IF b = "EGFR" THEN "L858R" ELSE "G12C"],
        priorTreatments |-> <<"carboplatin">>]

-----------------------------------------------------------------------------
(* C30 *)

\* C30: when the nine frames of the run have been applied in one turn and
\* no failure was caught, all four stages are complete, trialProgress has
\* one entry, totalCost is 0.011 (11 thousandths), and the turn has added
\* one assistant entry to the log, with the text 'done', after its user
\* entry.
C30_EndToEnd ==
  (framesLeft = 0 /\ calls[1].failure = "none")
  => /\ \A k \in 1..Len(PIPELINE_STEPS) : state.pipelineSteps[k].status = "complete"
     /\ Len(state.pipelineSteps) = 4
     /\ Len(state.trialProgress) = 1
     /\ state.totalCost = 11
     /\ AssistantEntries(state.messages) = 1
     /\ state.messages = <<UserMessage(calls[1].content), AssistantMessage(<<"done">>)>>

\* the turn has returned after the nine frames: the last stage, which had
\* no complete frame, is complete, and the stages before it have the costs
\* of their complete frames
C30_Witness ==
  /\ framesLeft = 0
  /\ calls[1].pc = "done"
  /\ calls[1].failure = "none"
  /\ Statuses = {"complete"}
  /\ state.pipelineSteps[1].cost = <<1>>
  /\ state.pipelineSteps[3].cost = <<10>>
  /\ state.pipelineSteps[4].cost = <<>>
  /\ Len(state.trialProgress) = 1
  /\ state.trials = <<"NCT001", "NCT002", "NCT003">>
  /\ state.totalCost = 11
  /\ ~state.isLoading

-----------------------------------------------------------------------------
(* C31 *)

\* C31: when the route has answered a matching request with 503, it has
\* armed no timer, opened no stream to the backend and enqueued no frame;
\* the call of the store has taken no reader and applied no frame, and once
\* fetch has settled it has returned with the failure 'Failed': the log ends
\* with the user entry of the turn and one error entry, no stage has
\* started, isLoading is false and lastUserMessage is the text of the turn.
C31_BackendUnavailable ==
  route.status = 503
  => /\ route.handler = "unavailable"
     /\ route.consumed = <<>> /\ route.emitted = <<>>
     /\ ~route.timeout /\ ~route.closed
     /\ LET c == calls[ncalls]
        IN /\ c.pc \in {"fetching", "done"}
           /\ ~c.opened /\ ~c.sawResponse /\ ~c.sawError
           /\ Statuses = {"pending"}
           /\ ~state.isPipelineRunning
           /\ state.lastUserMessage = <<c.content>>
           /\ c.pc = "done"
                => /\ c.failure = "Failed" /\ c.caught = 1
                   /\ Len(state.messages) >= 2
                   /\ state.messages[Len(state.messages) - 1] = UserMessage(c.content)
                   /\ LastMessage = AssistantMessage(ErrorContent("Failed"))
                   /\ ~state.isLoading

\* the second turn of a session, a matching request for a patient known
\* from the first, was answered with 503 and has ended with the error entry
C31_Witness ==
  /\ route.status = 503
  /\ ncalls = 2
  /\ calls[1].sawResponse
  /\ calls[2].pc = "done"
  /\ calls[2].failure = "Failed"
  /\ Len(state.messages) = 4
  /\ LastMessage = AssistantMessage(ErrorContent("Failed"))
  /\ state.lastUserMessage = <<"find trials">>
  /\ session.chatHistory = KnownPatientSession.chatHistory

-----------------------------------------------------------------------------
(* C32 *)

\* C32: when the call of a turn has returned (after a failure or without
\* one), the log has exactly one assistant entry of that turn.  Stated for a
\* single turn, whose log begins empty.
C32_OneAssistantEntry ==
  (SingleTurn /\ last.op \in {"failure", "return"}) => AssistantEntries(state.messages) = 1

-----------------------------------------------------------------------------
(* C33 *)

\* C33: in a single turn, once the call has applied a response frame, no
\* step appends an error entry to the log.
C33_NoErrorAfterResponse ==
  [][(SingleTurn /\ calls[1].sawResponse /\ ncalls' = ncalls /\ state'.sessionId = state.sessionId)
     => ~(/\ Len(state'.messages) = Len(state.messages) + 1
          /\ IsErrorMessage(state'.messages[Len(state'.messages)]))
    ]_vars

-----------------------------------------------------------------------------
(* C34 *)

\* C34: whenever isLoading is false, isPipelineRunning is false.  Stated for
\* a single turn.
C34_RunningClearedAtEnd ==
  (SingleTurn /\ ~state.isLoading) => ~state.isPipelineRunning

-----------------------------------------------------------------------------
(* C35 *)

\* C35: whenever a call of sendMessage has started and has not yet returned,
\* isLoading is true.
C35_LoadingWhileInFlight ==
  (\E i \in Calls : InFlight(i)) => state.isLoading

-----------------------------------------------------------------------------
(* C36 *)

\* C36: a step of a call that began before the last reset (its sessionId is
\* not the one of the store) and is still in flight leaves the log, the
\* stages, the trials, the cost, the profile and the retry pointer of the
\* store as they were.
C36_ResetIsolates ==
  [][\A i \in Calls :
       (InFlight(i) /\ calls[i].sessionId # state.sessionId /\ calls'[i] # calls[i])
         => /\ state'.messages = state.messages
            /\ state'.pipelineSteps = state.pipelineSteps
            /\ state'.trials = state.trials
            /\ state'.totalCost = state.totalCost
            /\ state'.patientProfile = state.patientProfile
            /\ state'.lastUserMessage = state.lastUserMessage
    ]_vars

-----------------------------------------------------------------------------
(* C37 *)

\* the names of the stages of a state, in order
StageNames(st) == [k \in 1..Len(st.pipelineSteps) |-> st.pipelineSteps[k].name]

\* C37: after every step the stage list has the names of PIPELINE_STEPS in
\* their order, and the step that applies a step_start, step_complete or
\* step_progress frame naming a stage that is not among them leaves the
\* stage list as it was: every status, cost and detail.
C37_UnknownStageIgnored ==
  [][/\ StageNames(state') = PIPELINE_STEPS
     /\ \A i \in Calls, f \in Frames :
          (/\ f.type \in {"step_start", "step_complete", "step_progress"}
           /\ f.step \notin Range(PIPELINE_STEPS)
           /\ ReadChunk(i, f))
          => state'.pipelineSteps = state.pipelineSteps
    ]_vars

\* a step_start and a step_progress frame for the graph node parse_patient
\* have been applied: the flag and matchingDetail show them, and the four
\* stages are pending without a detail
C37_Witness ==
  /\ framesLeft = 0
  /\ state.isPipelineRunning
  /\ state.matchingDetail = <<"Processing...">>
  /\ state.pipelineSteps = ResetSteps

-----------------------------------------------------------------------------
(* C38 *)

\* C38: the step in which the route answers a request with 503 leaves the
\* patientProfile and the chatHistory of the session as they were.
C38_UnavailableKeepsSession ==
  [][(route.status = 0 /\ route'.status = 503)
     => /\ session'.patientProfile = session.patientProfile
        /\ session'.chatHistory = session.chatHistory
    ]_vars

-----------------------------------------------------------------------------
(* C39 *)

\* the last n entries of a sequence (all of them when it has fewer)
LastEntries(xs, n) == SubSeq(xs, IF Len(xs) > n THEN Len(xs) - n + 1 ELSE 1, Len(xs))

\* C39: the chat history of a session never has more than 20 entries, and it
\* is the last 20 (or all) of the entries pushed so far, in their order;
\* and the step that serves a chat request leaves as the history the last
\* 20 (or all) of: the history before, the user entry with the message,
\* the assistant entry with the reply (or the fallback text).
C39_HistoryBounded ==
  /\ [](/\ Len(session.chatHistory) <= HISTORY_LIMIT
        /\ session.chatHistory = LastEntries(session.pushed, HISTORY_LIMIT))
  /\ [][\A r \in Requests, reply \in ChatReplies :
          HistoryChat(r, reply)
          => LET content == IF reply # <<>> THEN reply[1]
                            ELSE IF r.parsedProfile = NothingExtracted THEN AssistantIntroMsg
                            ELSE ProfileUpdatedMsg
                 grown == session.chatHistory \o
                            <<[role |-> "user", content |-> r.message],
                              [role |-> "assistant", content |-> content]>>
             IN session'.chatHistory = LastEntries(grown, HISTORY_LIMIT)
       ]_vars

\* a session that had served ten chat requests has served three more, the
\* last one answered by the fallback text: of the 26 entries pushed the
\* history holds the last 20, the oldest of them the user entry of the
\* fourth request
C39_Witness ==
  /\ Len(session.pushed) = 26
  /\ Len(session.chatHistory) = 20
  /\ session.chatHistory[1] = session.pushed[7]
  /\ session.chatHistory[1].role = "user"
  /\ session.chatHistory[19] = [role |-> "user", content |-> "58yo female NSCLC"]
  /\ session.chatHistory[20] = [role |-> "assistant", content |-> ProfileUpdatedMsg]

====
